---- MODULE Spec2Model ----
(***************************************************************************)
(* Model of the ramp-up driver of src/AwsRunner.py (main, run_test,        *)
(* ThreadWithError, RunAverages, RunResult).                               *)
(*                                                                         *)
(* Units are numbered 1..clients in the order of test_object_list.  A      *)
(* phase call on a unit is a thread that is started, runs the unit's       *)
(* method, and terminates by returning or by raising.  Time is discrete:   *)
(* clock counts the time units elapsed since the threads of the current    *)
(* phase were launched; it advances only while the driver is blocked in    *)
(* t.join(timeout) on a live thread, every other driver step being         *)
(* instantaneous.                                                          *)
(***************************************************************************)
EXTENDS Integers, Sequences, FiniteSets, TLC

\* ----- bounds ---------------------------------------------------------
MaxClients == 2          \* largest value of args.clients explored
JoinTimeout == 2         \* the 900 s of t.join(900), in model time units
MaxListLen == 2          \* longest run_result_list given to RunAverages alone
MaxTimeMs == 1           \* largest duration of a RunResult given to RunAverages alone
WaitTimeout == 2         \* timeout_sec of _wait_for_instance_state, in sleeps of the loop

VARIABLES
    clients,               \* args.clients
    pc,                    \* position of the driver (main thread) in main()
    phase,                 \* phase the driver is in
    i,                     \* loop variable of the ramp loop (0 in the warm-up)
    j,                     \* threads started / thread joined / units cleaned
    thread_list,           \* per unit: the ThreadWithError of the current phase
    result,                \* per unit: local variable result of run_test
    lockobj,               \* holder of lockobj (0 = free)
    test_per_run_results,  \* the module-level accumulator
    test_run_averages,     \* the report under construction
    clock,                 \* time since the launch of the current phase
    join_start,            \* clock value when the current t.join began
    fin,                   \* per unit: clock value when its thread ended (-1: not yet)
    phase_log,             \* history: the phase calls completed so far
    abort,                 \* <<>> or <<phase, level, reason>> of the raised error
    call_log,              \* history: the phase calls issued, <<phase, level, unit>>
    teardown_log,          \* history: the testbed cleanup calls attempted
    report_out,            \* what report_results emitted
    cmds,                  \* execute_test on its own: the three command outcomes
    timeout_sec,           \* the timeout given to t.join (900 in main)
    args,                  \* the parsed command line
    remote_log,            \* history: provisioner and object store calls before the try
    tests,                 \* the test objects handed to the runners of classicTest
    ec2_instances,         \* create_instances on its own: state of each reserved instance
    wait                   \* locals of the wait loop under study
\* An entry of phase_log is <<phase, level, units, outcome>>.

vars == <<clients, pc, phase, i, j, thread_list, result, lockobj,
          test_per_run_results, test_run_averages, clock, join_start, fin,
          phase_log, abort, call_log, teardown_log, report_out, cmds,
          timeout_sec, args, remote_log, tests, ec2_instances, wait>>

Units == 1..clients

Phases == <<"setup_environment", "pre_test_setup", "execute_test", "cleanup">>

\* ----- RunResult ------------------------------------------------------
\* RunResult.__init__: every status False, every time 0.
RunResult(resultId) ==
    [id |-> resultId, level |-> 0,
     file_create_status |-> FALSE, file_create_time_ms |-> 0,
     file_read_status |-> FALSE, file_read_time_ms |-> 0,
     file_delete_status |-> FALSE, file_delete_time_ms |-> 0]

\* One measurement as parse_output leaves it: a miss keeps status False and
\* time 0, a match sets status True and the time.
Measurements(maxms) == {<<FALSE, 0>>} \cup {<<TRUE, t>> : t \in 0..maxms}

\* parse_output: the RunResult built from the three measurements.
parse_output(resultId, c, r, d) ==
    [RunResult(resultId) EXCEPT
        !.file_create_status = c[1], !.file_create_time_ms = c[2],
        !.file_read_status = r[1], !.file_read_time_ms = r[2],
        !.file_delete_status = d[1], !.file_delete_time_ms = d[2]]

\* The outcomes of execute_test explored in the ramp: everything matched,
\* the read output missed, nothing matched.
ExecuteOutcomes ==
    { <<<<TRUE, 2>>, <<TRUE, 4>>, <<TRUE, 6>>>>,
      <<<<TRUE, 5>>, <<FALSE, 0>>, <<TRUE, 1>>>> }

\* ----- RunAverages ----------------------------------------------------
\* RunAverages.__init__, lines 537-550: the counters before the loop.
InitAverages(run_id) ==
    [run_id |-> run_id,
     total_create_pass |-> 0, total_create_fail |-> 0,
     total_create_time_ms |-> 0, average_create_time_ms |-> 0,
     total_read_pass |-> 0, total_read_fail |-> 0,
     total_read_time_ms |-> 0, average_read_time_ms |-> 0,
     total_delete_pass |-> 0, total_delete_fail |-> 0,
     total_delete_time_ms |-> 0, average_delete_time_ms |-> 0]

\* Variant of AddReport: the three tests form one if/elif chain, so a report
\* is counted for the first operation that passed only.
AddReport_ElifChain(a, report) ==
    IF report.file_create_status
    THEN [a EXCEPT !.total_create_pass = @ + 1,
                   !.total_create_time_ms = @ + report.file_create_time_ms]
    ELSE IF report.file_read_status
    THEN [a EXCEPT !.total_create_fail = @ + 1,
                   !.total_read_pass = @ + 1,
                   !.total_read_time_ms = @ + report.file_read_time_ms]
    ELSE IF report.file_delete_status
    THEN [a EXCEPT !.total_create_fail = @ + 1,
                   !.total_read_fail = @ + 1,
                   !.total_delete_pass = @ + 1,
                   !.total_delete_time_ms = @ + report.file_delete_time_ms]
    ELSE [a EXCEPT !.total_create_fail = @ + 1,
                   !.total_read_fail = @ + 1,
                   !.total_delete_fail = @ + 1]

\* One iteration of "for report in run_result_list".
AddReport(a, report) ==
    LET a1 == IF report.file_create_status
              THEN [a EXCEPT !.total_create_pass = @ + 1,
                             !.total_create_time_ms = @ + report.file_create_time_ms]
              ELSE [a EXCEPT !.total_create_fail = @ + 1]
        a2 == IF report.file_read_status
              THEN [a1 EXCEPT !.total_read_pass = @ + 1,
                              !.total_read_time_ms = @ + report.file_read_time_ms]
              ELSE [a1 EXCEPT !.total_read_fail = @ + 1]
    IN  IF report.file_delete_status
        THEN [a2 EXCEPT !.total_delete_pass = @ + 1,
                        !.total_delete_time_ms = @ + report.file_delete_time_ms]
        ELSE [a2 EXCEPT !.total_delete_fail = @ + 1]

RECURSIVE TallyReports(_, _)
TallyReports(a, run_result_list) ==
    IF run_result_list = << >> THEN a
    ELSE TallyReports(AddReport(a, Head(run_result_list)), Tail(run_result_list))

\* Lines 567-571.
SetCreateAverage(a) ==
    IF a.total_create_pass = 0
    THEN [a EXCEPT !.average_create_time_ms = -1]
    ELSE [a EXCEPT !.average_create_time_ms =
                        a.total_create_time_ms \div a.total_create_pass]

\* Lines 572-576: the branch for no passing read assigns the create average.
SetReadAverage(a) ==
    IF a.total_read_pass = 0
    THEN [a EXCEPT !.average_create_time_ms = -1]
    ELSE [a EXCEPT !.average_read_time_ms =
                        a.total_read_time_ms \div a.total_read_pass]

\* Lines 577-581.
SetDeleteAverage(a) ==
    IF a.total_delete_pass = 0
    THEN [a EXCEPT !.average_delete_time_ms = -1]
    ELSE [a EXCEPT !.average_delete_time_ms =
                        a.total_delete_time_ms \div a.total_delete_pass]

RunAverages(run_result_list, run_id) ==
    SetDeleteAverage(SetReadAverage(SetCreateAverage(
        TallyReports(InitAverages(run_id), run_result_list))))

\* A command line that passes every check of main, lines 718-747.  An option
\* is << >> when it was not given (None) and <<value>> when it was; the value
\* of keypairfile says what the path points to.
GivenArgs(n) ==
    [clients |-> <<n>>, bucket |-> <<"given">>, region |-> <<"given">>,
     key |-> <<"given">>, secretkey |-> <<"given">>,
     keypairname |-> <<"given">>, keypairfile |-> <<"file">>]

\* The calls main makes between the checks and the try block, lines 750-768,
\* when the bucket does not exist yet.
Provisioning ==
    <<"cloud_provider.connect", "storage.connect", "bucket_exists",
      "create_bucket", "create_instances">>

\* report_results has not run.
NoReport == [emitted |-> FALSE, rows |-> << >>, to_file |-> FALSE]

\* No command of execute_test has been issued.
NoCommands == [out |-> << >>, attempted |-> 0, outputs |-> << >>, raised |-> FALSE]

\* No wait loop has been entered.
NoWait == [timeout |-> 0, done |-> FALSE]

\* ----- ThreadWithError ------------------------------------------------
NoThread == [pos |-> "none", error |-> FALSE, target |-> "none", raised |-> "no"]
NoResult == [id |-> 0]

\* ThreadWithError(target=...).start(): run() clears the flag and calls the target.
StartedThread(target) ==
    [pos |-> "running", error |-> FALSE, target |-> target, raised |-> "no"]

\* The target function the driver gives the threads of a phase.
TargetOf(p) ==
    IF p = "setup_environment" THEN "general_test_prep"
    ELSE IF p = "pre_test_setup" THEN "pre_test_setup"
    ELSE "run_test"

\* Variant of is_alive: the join loop takes every thread for ended.
is_alive_Never(t) == FALSE

\* Thread.is_alive()
is_alive(t) == t.pos \in {"running", "acquire", "locked", "exiting"}

\* Variant of has_error: the flag is never reported.
has_error_Never(t) == FALSE

\* ThreadWithError.has_error()
has_error(t) == t.error

\* Variant of Members: every level runs over the whole unit list.
Members_All == clients

\* Variant of Members: the warm-up runs on the first unit only.
Members_First == IF phase = "setup_environment" THEN 1 ELSE i

\* Number of units the current phase runs over: every virtual instance in the
\* warm-up, range(0, i) in the ramp loop.
Members == IF phase = "setup_environment" THEN clients ELSE i

Init ==
    /\ clients \in 1..MaxClients
    /\ pc = "start"
    /\ phase = "setup_environment"
    /\ i = 0
    /\ j = 0
    /\ thread_list = [u \in 1..clients |-> NoThread]
    /\ result = [u \in 1..clients |-> NoResult]
    /\ lockobj = 0
    /\ test_per_run_results = << >>
    /\ test_run_averages = << >>
    /\ clock = 0
    /\ join_start = 0
    /\ fin = [u \in 1..clients |-> -1]
    /\ phase_log = << >>
    /\ abort = << >>
    /\ call_log = << >>
    /\ teardown_log = << >>
    /\ report_out = NoReport
    /\ cmds = NoCommands
    /\ timeout_sec = JoinTimeout
    /\ tests = << >>
    /\ ec2_instances = << >>
    /\ wait = NoWait
    /\ args = GivenArgs(clients)
    /\ remote_log = Provisioning

\* ----- the driver: main(), lines 775-841 ---------------------------------
\* Variant of RaiseInTry: the error is caught inside the loop body, logged, and
\* the pass of the ramp loop carries on to its averages.
RaiseInTry_Continue(reason) ==
    /\ abort' = <<phase, i, reason>>
    /\ phase_log' = Append(phase_log, <<phase, i, Members, reason>>)
    /\ pc' = "averages"

\* "except Exception" of line 832: the error raised inside the try block is
\* logged and the driver goes on to the testbed cleanup of line 837.
RaiseInTry(reason) ==
    /\ abort' = <<phase, i, reason>>
    /\ phase_log' = Append(phase_log, <<phase, i, Members, reason>>)
    /\ pc' = "destroy"

\* thread_list = [] and the first pass of a start loop (lines 799, 813).
BeginPhase(p, level) ==
    /\ phase' = p
    /\ i' = level
    /\ pc' = "start"
    /\ j' = 0
    /\ thread_list' = [u \in Units |-> NoThread]
    /\ result' = [u \in Units |-> NoResult]
    /\ fin' = [u \in Units |-> -1]
    /\ clock' = 0
    /\ join_start' = 0

\* The join loop of a phase ran to its end without raising.
PhaseOk ==
    /\ phase_log' = Append(phase_log, <<phase, i, j, "ok">>)
    /\ abort' = abort
    /\ IF phase = "setup_environment" THEN BeginPhase("pre_test_setup", 1)
       ELSE IF phase = "pre_test_setup" THEN BeginPhase("execute_test", i)
       ELSE /\ phase' = "cleanup"
            /\ pc' = "cleanup"
            /\ j' = 0
            /\ UNCHANGED <<i, thread_list, result, fin, clock, join_start>>

\* One pass of a start loop: t = ThreadWithError(...); t.start()
\* (lines 780-786, 800-804, 814-818).  After the last pass the driver enters
\* the join loop.
StartThread ==
    /\ pc = "start"
    /\ j < Members
    /\ thread_list' = [thread_list EXCEPT ![j + 1] = StartedThread(TargetOf(phase))]
    /\ call_log' = Append(call_log, <<phase, i, j + 1>>)
    /\ IF j + 1 = Members
       THEN /\ pc' = "join"
            /\ j' = 1
            /\ join_start' = clock
       ELSE /\ j' = j + 1
            /\ UNCHANGED <<pc, join_start>>
    /\ UNCHANGED <<clients, phase, i, result, lockobj, test_per_run_results,
                   test_run_averages, clock, fin, phase_log, abort>>
    /\ UNCHANGED <<teardown_log, report_out, cmds>>
    /\ UNCHANGED <<timeout_sec, args, remote_log>>
    /\ UNCHANGED <<tests, ec2_instances, wait>>

\* Variant of Tick: the join waits one time unit longer than the timeout.
Tick_WaitsLonger ==
    /\ pc = "join"
    /\ is_alive(thread_list[j])
    /\ clock < join_start + timeout_sec + 1
    /\ clock' = clock + 1
    /\ UNCHANGED <<clients, pc, phase, i, j, thread_list, result, lockobj,
                   test_per_run_results, test_run_averages, join_start, fin,
                   phase_log, abort>>
    /\ UNCHANGED <<call_log, teardown_log, report_out, cmds>>
    /\ UNCHANGED <<timeout_sec, args, remote_log>>
    /\ UNCHANGED <<tests, ec2_instances, wait>>

\* Time passes while the driver is blocked in t.join(900) on a live thread.
Tick ==
    /\ pc = "join"
    /\ is_alive(thread_list[j])
    /\ clock < join_start + timeout_sec
    /\ clock' = clock + 1
    /\ UNCHANGED <<clients, pc, phase, i, j, thread_list, result, lockobj,
                   test_per_run_results, test_run_averages, join_start, fin,
                   phase_log, abort>>
    /\ UNCHANGED <<call_log, teardown_log, report_out, cmds>>
    /\ UNCHANGED <<timeout_sec, args, remote_log>>
    /\ UNCHANGED <<tests, ec2_instances, wait>>

\* t.join(900) returns because the thread has ended: is_alive() is False and
\* has_error() decides (lines 789-793, 806-810, 820-824).
JoinReturns ==
    /\ pc = "join"
    /\ ~is_alive(thread_list[j])
    /\ IF has_error(thread_list[j])
       THEN /\ RaiseInTry("error")
            /\ UNCHANGED <<phase, i, j, thread_list, result, fin, clock, join_start>>
       ELSE IF j < Members
       THEN /\ j' = j + 1
            /\ join_start' = clock
            /\ UNCHANGED <<pc, phase, i, thread_list, result, fin, clock,
                           phase_log, abort>>
       ELSE PhaseOk
    /\ UNCHANGED <<clients, lockobj, test_per_run_results, test_run_averages>>
    /\ UNCHANGED <<call_log, teardown_log, report_out, cmds>>
    /\ UNCHANGED <<timeout_sec, args, remote_log>>
    /\ UNCHANGED <<tests, ec2_instances, wait>>

\* Variant of JoinTimesOut: the error flag is looked at before the liveness.
JoinTimesOut_FlagFirst ==
    /\ pc = "join"
    /\ is_alive(thread_list[j])
    /\ clock = join_start + timeout_sec
    /\ IF has_error(thread_list[j]) THEN RaiseInTry("error")
       ELSE RaiseInTry("timeout")
    /\ UNCHANGED <<clients, phase, i, j, thread_list, result, lockobj,
                   test_per_run_results, test_run_averages, clock, join_start, fin>>
    /\ UNCHANGED <<call_log, teardown_log, report_out, cmds>>
    /\ UNCHANGED <<timeout_sec, args, remote_log>>
    /\ UNCHANGED <<tests, ec2_instances, wait>>

\* t.join(900) returns because the 900 s have passed: is_alive() is True.
JoinTimesOut ==
    /\ pc = "join"
    /\ is_alive(thread_list[j])
    /\ clock = join_start + timeout_sec
    /\ RaiseInTry("timeout")
    /\ UNCHANGED <<clients, phase, i, j, thread_list, result, lockobj,
                   test_per_run_results, test_run_averages, clock, join_start, fin>>
    /\ UNCHANGED <<call_log, teardown_log, report_out, cmds>>
    /\ UNCHANGED <<timeout_sec, args, remote_log>>
    /\ UNCHANGED <<tests, ec2_instances, wait>>

\* ----- the workers ----------------------------------------------------------
\* Variant of TargetReturns: the return value of every target, whatever the
\* phase, is kept and appended to the accumulator under the lock.
TargetReturns_Gather(u) ==
    /\ thread_list[u].pos = "running"
    /\ IF thread_list[u].target = "run_test"
       THEN \E o \in ExecuteOutcomes:
                 result' = [result EXCEPT
                     ![u] = [parse_output(u, o[1], o[2], o[3]) EXCEPT !.level = i]]
       ELSE result' = [result EXCEPT ![u] = [RunResult(u) EXCEPT !.level = i]]
    /\ thread_list' = [thread_list EXCEPT ![u].pos = "acquire"]
    /\ fin' = fin
    /\ UNCHANGED <<clients, pc, phase, i, j, lockobj, test_per_run_results,
                   test_run_averages, clock, join_start, phase_log, abort>>
    /\ UNCHANGED <<call_log, teardown_log, report_out, cmds>>
    /\ UNCHANGED <<timeout_sec, args, remote_log>>
    /\ UNCHANGED <<tests, ec2_instances, wait>>

\* The target of a thread returns: general_test_prep and pre_test_setup end the
\* thread; run_test keeps the RunResult in result and goes on to the lock.
TargetReturns(u) ==
    /\ thread_list[u].pos = "running"
    /\ IF thread_list[u].target = "run_test"
       THEN /\ \E o \in ExecuteOutcomes:
                 result' = [result EXCEPT
                     ![u] = [parse_output(u, o[1], o[2], o[3]) EXCEPT !.level = i]]
            /\ thread_list' = [thread_list EXCEPT ![u].pos = "acquire"]
            /\ fin' = fin
       ELSE /\ thread_list' = [thread_list EXCEPT ![u].pos = "done"]
            /\ fin' = [fin EXCEPT ![u] = clock]
            /\ result' = result
    /\ UNCHANGED <<clients, pc, phase, i, j, lockobj, test_per_run_results,
                   test_run_averages, clock, join_start, phase_log, abort>>
    /\ UNCHANGED <<call_log, teardown_log, report_out, cmds>>
    /\ UNCHANGED <<timeout_sec, args, remote_log>>
    /\ UNCHANGED <<tests, ec2_instances, wait>>

\* Variant of TargetRaises: run() catches the exception without setting
\* self.error.
TargetRaises_NoFlag(u) ==
    /\ thread_list[u].pos = "running"
    /\ thread_list' = [thread_list EXCEPT ![u].pos = "done",
                                          ![u].raised = "Exception"]
    /\ fin' = [fin EXCEPT ![u] = clock]
    /\ UNCHANGED <<clients, pc, phase, i, j, result, lockobj, test_per_run_results,
                   test_run_averages, clock, join_start, phase_log, abort>>
    /\ UNCHANGED <<call_log, teardown_log, report_out, cmds>>
    /\ UNCHANGED <<timeout_sec, args, remote_log>>
    /\ UNCHANGED <<tests, ec2_instances, wait>>

\* The target raises: ThreadWithError.run catches it and sets self.error.
TargetRaises(u) ==
    /\ thread_list[u].pos = "running"
    /\ thread_list' = [thread_list EXCEPT ![u].pos = "done", ![u].error = TRUE,
                                          ![u].raised = "Exception"]
    /\ fin' = [fin EXCEPT ![u] = clock]
    /\ UNCHANGED <<clients, pc, phase, i, j, result, lockobj, test_per_run_results,
                   test_run_averages, clock, join_start, phase_log, abort>>
    /\ UNCHANGED <<call_log, teardown_log, report_out, cmds>>
    /\ UNCHANGED <<timeout_sec, args, remote_log>>
    /\ UNCHANGED <<tests, ec2_instances, wait>>

\* Variant of AcquireLock: each run_test thread takes a lock of its own, so
\* the lock is granted whether or not another thread is appending.
AcquireLock_OwnLock(u) ==
    /\ thread_list[u].pos = "acquire"
    /\ lockobj' = u
    /\ thread_list' = [thread_list EXCEPT ![u].pos = "locked"]
    /\ UNCHANGED <<clients, pc, phase, i, j, result, test_per_run_results,
                   test_run_averages, clock, join_start, fin, phase_log, abort>>
    /\ UNCHANGED <<call_log, teardown_log, report_out, cmds>>
    /\ UNCHANGED <<timeout_sec, args, remote_log>>
    /\ UNCHANGED <<tests, ec2_instances, wait>>

\* run_test: "with lock_obj:" acquires the lock.
AcquireLock(u) ==
    /\ thread_list[u].pos = "acquire"
    /\ lockobj = 0
    /\ lockobj' = u
    /\ thread_list' = [thread_list EXCEPT ![u].pos = "locked"]
    /\ UNCHANGED <<clients, pc, phase, i, j, result, test_per_run_results,
                   test_run_averages, clock, join_start, fin, phase_log, abort>>
    /\ UNCHANGED <<call_log, teardown_log, report_out, cmds>>
    /\ UNCHANGED <<timeout_sec, args, remote_log>>
    /\ UNCHANGED <<tests, ec2_instances, wait>>

\* Variant of AppendResult: the append is lost (the list is updated from a
\* stale copy), the lock is released and the thread ends.
AppendResult_Lost(u) ==
    /\ thread_list[u].pos = "locked"
    /\ test_per_run_results' =
           IF \E n \in DOMAIN test_per_run_results:
                  test_per_run_results[n].level = i
           THEN test_per_run_results
           ELSE Append(test_per_run_results, result[u])
    /\ lockobj' = 0
    /\ thread_list' = [thread_list EXCEPT ![u].pos = "done"]
    /\ fin' = [fin EXCEPT ![u] = clock]
    /\ UNCHANGED <<clients, pc, phase, i, j, result, test_run_averages, clock,
                   join_start, phase_log, abort>>
    /\ UNCHANGED <<call_log, teardown_log, report_out, cmds>>
    /\ UNCHANGED <<timeout_sec, args, remote_log>>
    /\ UNCHANGED <<tests, ec2_instances, wait>>

\* run_test: test_per_run_results.append(result), release, thread ends.
AppendResult(u) ==
    /\ thread_list[u].pos = "locked"
    /\ test_per_run_results' = Append(test_per_run_results, result[u])
    /\ lockobj' = 0
    /\ thread_list' = [thread_list EXCEPT ![u].pos = "done"]
    /\ fin' = [fin EXCEPT ![u] = clock]
    /\ UNCHANGED <<clients, pc, phase, i, j, result, test_run_averages, clock,
                   join_start, phase_log, abort>>
    /\ UNCHANGED <<call_log, teardown_log, report_out, cmds>>
    /\ UNCHANGED <<timeout_sec, args, remote_log>>
    /\ UNCHANGED <<tests, ec2_instances, wait>>

\* ----- cleanup and averages, lines 826-831 ----------------------------------
\* test_object_list[j].cleanup() is called in the driver's own thread.
CleanupCall ==
    /\ pc = "cleanup"
    /\ pc' = "in_cleanup"
    /\ call_log' = Append(call_log, <<phase, i, j + 1>>)
    /\ UNCHANGED <<clients, phase, i, j, thread_list, result, lockobj,
                   test_per_run_results, test_run_averages, clock, join_start,
                   fin, phase_log, abort>>
    /\ UNCHANGED <<teardown_log, report_out, cmds>>
    /\ UNCHANGED <<timeout_sec, args, remote_log>>
    /\ UNCHANGED <<tests, ec2_instances, wait>>

CleanupReturns ==
    /\ pc = "in_cleanup"
    /\ j' = j + 1
    /\ IF j + 1 = Members
       THEN /\ pc' = "averages"
            /\ phase_log' = Append(phase_log, <<phase, i, j + 1, "ok">>)
       ELSE /\ pc' = "cleanup"
            /\ phase_log' = phase_log
    /\ UNCHANGED <<clients, phase, i, thread_list, result, lockobj,
                   test_per_run_results, test_run_averages, clock, join_start,
                   fin, abort>>
    /\ UNCHANGED <<call_log, teardown_log, report_out, cmds>>
    /\ UNCHANGED <<timeout_sec, args, remote_log>>
    /\ UNCHANGED <<tests, ec2_instances, wait>>

\* Variant of CleanupRaises: the error of a cleanup call is logged and the
\* cleanup loop goes on with the next unit.
CleanupRaises_Swallowed ==
    /\ pc = "in_cleanup"
    /\ abort' = <<phase, i, "error">>
    /\ j' = j + 1
    /\ pc' = IF j + 1 = Members THEN "averages" ELSE "cleanup"
    /\ UNCHANGED <<clients, phase, i, thread_list, result, lockobj,
                   test_per_run_results, test_run_averages, clock, join_start,
                   fin, phase_log>>
    /\ UNCHANGED <<call_log, teardown_log, report_out, cmds>>
    /\ UNCHANGED <<timeout_sec, args, remote_log>>
    /\ UNCHANGED <<tests, ec2_instances, wait>>

CleanupRaises ==
    /\ pc = "in_cleanup"
    /\ RaiseInTry("error")
    /\ UNCHANGED <<clients, phase, i, j, thread_list, result, lockobj,
                   test_per_run_results, test_run_averages, clock, join_start, fin>>
    /\ UNCHANGED <<call_log, teardown_log, report_out, cmds>>
    /\ UNCHANGED <<timeout_sec, args, remote_log>>
    /\ UNCHANGED <<tests, ec2_instances, wait>>

\* Variant of StoreAverages: the ramp loop is range(1, args.clients).
StoreAverages_StopsEarly ==
    /\ pc = "averages"
    /\ test_run_averages' =
           Append(test_run_averages, RunAverages(test_per_run_results, i))
    /\ IF i < clients - 1
       THEN BeginPhase("pre_test_setup", i + 1)
       ELSE /\ pc' = "destroy"
            /\ UNCHANGED <<phase, i, j, thread_list, result, fin, clock, join_start>>
    /\ UNCHANGED <<clients, lockobj, test_per_run_results, phase_log, abort>>
    /\ UNCHANGED <<call_log, teardown_log, report_out, cmds>>
    /\ UNCHANGED <<timeout_sec, args, remote_log>>
    /\ UNCHANGED <<tests, ec2_instances, wait>>

\* Variant of StoreAverages: the averages of a level are stored under the
\* zero-based index of the pass.
StoreAverages_ZeroBased ==
    /\ pc = "averages"
    /\ test_run_averages' =
           Append(test_run_averages, RunAverages(test_per_run_results, i - 1))
    /\ IF i < clients
       THEN BeginPhase("pre_test_setup", i + 1)
       ELSE /\ pc' = "destroy"
            /\ UNCHANGED <<phase, i, j, thread_list, result, fin, clock, join_start>>
    /\ UNCHANGED <<clients, lockobj, test_per_run_results, phase_log, abort>>
    /\ UNCHANGED <<call_log, teardown_log, report_out, cmds>>
    /\ UNCHANGED <<timeout_sec, args, remote_log>>
    /\ UNCHANGED <<tests, ec2_instances, wait>>

\* Variant of StoreAverages: the entries of the earlier levels are computed
\* again from the accumulator each time a level is stored.
StoreAverages_Recomputes ==
    /\ pc = "averages"
    /\ test_run_averages' =
           [n \in 1..i |-> RunAverages(test_per_run_results, n)]
    /\ IF i < clients
       THEN BeginPhase("pre_test_setup", i + 1)
       ELSE /\ pc' = "destroy"
            /\ UNCHANGED <<phase, i, j, thread_list, result, fin, clock, join_start>>
    /\ UNCHANGED <<clients, lockobj, test_per_run_results, phase_log, abort>>
    /\ UNCHANGED <<call_log, teardown_log, report_out, cmds>>
    /\ UNCHANGED <<timeout_sec, args, remote_log>>
    /\ UNCHANGED <<tests, ec2_instances, wait>>

\* test_run_averages.append(RunAverages(test_per_run_results, i)), then the
\* next pass of "for i in range(1, args.clients + 1)" or the end of the try.
StoreAverages ==
    /\ pc = "averages"
    /\ test_run_averages' =
           Append(test_run_averages, RunAverages(test_per_run_results, i))
    /\ IF i < clients
       THEN BeginPhase("pre_test_setup", i + 1)
       ELSE /\ pc' = "destroy"
            /\ UNCHANGED <<phase, i, j, thread_list, result, fin, clock, join_start>>
    /\ UNCHANGED <<clients, lockobj, test_per_run_results, phase_log, abort>>
    /\ UNCHANGED <<call_log, teardown_log, report_out, cmds>>
    /\ UNCHANGED <<timeout_sec, args, remote_log>>
    /\ UNCHANGED <<tests, ec2_instances, wait>>

\* ----- testbed cleanup and report, lines 836-841 ----------------------------
\* cloud_provider.destroy_all_instances(), line 837: it returns, or it raises
\* (line 161, or an error of the provider) and nothing in main catches it.
DestroyAllInstances ==
    /\ pc = "destroy"
    /\ teardown_log' = Append(teardown_log, "destroy_all_instances")
    /\ \/ pc' = "delete_bucket"
       \/ pc' = "crashed"
    /\ UNCHANGED <<clients, phase, i, j, thread_list, result, lockobj,
                   test_per_run_results, test_run_averages, clock, join_start,
                   fin, phase_log, abort>>
    /\ UNCHANGED <<call_log, report_out, cmds>>
    /\ UNCHANGED <<timeout_sec, args, remote_log>>
    /\ UNCHANGED <<tests, ec2_instances, wait>>

\* storage.delete_bucket(args.bucket), line 838: returns or raises, uncaught.
DeleteBucket ==
    /\ pc = "delete_bucket"
    /\ teardown_log' = Append(teardown_log, "delete_bucket")
    /\ \/ pc' = "report"
       \/ pc' = "crashed"
    /\ UNCHANGED <<clients, phase, i, j, thread_list, result, lockobj,
                   test_per_run_results, test_run_averages, clock, join_start,
                   fin, phase_log, abort>>
    /\ UNCHANGED <<call_log, report_out, cmds>>
    /\ UNCHANGED <<timeout_sec, args, remote_log>>
    /\ UNCHANGED <<tests, ec2_instances, wait>>

\* report_results, lines 673-680: one dict of strings per RunAverages.
ReportRows(list_of_results) ==
    [n \in DOMAIN list_of_results |->
        [RunId |-> ToString(list_of_results[n].run_id),
         AvgCreateTimeMs |-> ToString(list_of_results[n].average_create_time_ms),
         AvgReadTimeMs |-> ToString(list_of_results[n].average_read_time_ms),
         AvgDelTimeMs |-> ToString(list_of_results[n].average_delete_time_ms)]]

\* report_results(test_run_averages, outfile=args.outfile), line 841: the rows
\* are logged, and written to the file when --outfile was given.
ReportResults ==
    /\ pc = "report"
    /\ pc' = "done"
    /\ \E outfile \in BOOLEAN:
          report_out' = [emitted |-> TRUE, rows |-> ReportRows(test_run_averages),
                         to_file |-> outfile]
    /\ UNCHANGED <<clients, phase, i, j, thread_list, result, lockobj,
                   test_per_run_results, test_run_averages, clock, join_start,
                   fin, phase_log, abort>>
    /\ UNCHANGED <<call_log, teardown_log, cmds>>
    /\ UNCHANGED <<timeout_sec, args, remote_log>>
    /\ UNCHANGED <<tests, ec2_instances, wait>>

Worker(u) ==
    \/ TargetReturns(u)
    \/ TargetRaises(u)
    \/ AcquireLock(u)
    \/ AppendResult(u)

Next ==
    \/ StartThread
    \/ Tick
    \/ JoinReturns
    \/ JoinTimesOut
    \/ \E u \in Units: Worker(u)
    \/ CleanupCall
    \/ CleanupReturns
    \/ CleanupRaises
    \/ StoreAverages
    \/ DestroyAllInstances
    \/ DeleteBucket
    \/ ReportResults

Spec == Init /\ [][Next]_vars

\* ----- ThreadWithError around an arbitrary callable ------------------------
\* The callable raises an exception that is not an Exception (SystemExit,
\* KeyboardInterrupt, GeneratorExit): "except Exception" of run() does not
\* catch it, self.error stays False and the thread ends.
TargetExits(u) ==
    /\ thread_list[u].pos = "running"
    /\ thread_list' = [thread_list EXCEPT ![u].pos = "done",
                                          ![u].raised = "BaseException"]
    /\ fin' = [fin EXCEPT ![u] = clock]
    /\ UNCHANGED <<clients, pc, phase, i, j, result, lockobj, test_per_run_results,
                   test_run_averages, clock, join_start, phase_log, abort>>
    /\ UNCHANGED <<call_log, teardown_log, report_out, cmds>>
    /\ UNCHANGED <<timeout_sec, args, remote_log>>
    /\ UNCHANGED <<tests, ec2_instances, wait>>

\* The driver is in the start loop or the join loop of lines 780-793.
InFirstLoops == phase = "setup_environment" /\ pc \in {"start", "join"}

\* The start loop and the join loop of lines 780-793 over workers whose
\* callable may return, raise an Exception or raise anything else; the run is
\* followed until that join loop is left.
NextAnyCallable ==
    \/ InFirstLoops /\ StartThread
    \/ InFirstLoops /\ Tick
    \/ InFirstLoops /\ JoinReturns
    \/ InFirstLoops /\ JoinTimesOut
    \/ \E u \in Units: InFirstLoops /\ TargetReturns(u)
    \/ \E u \in Units: InFirstLoops /\ TargetRaises(u)
    \/ \E u \in Units: InFirstLoops /\ TargetExits(u)

\* ThreadWithError workers around arbitrary callables.
SpecAnyCallable == Init /\ [][NextAnyCallable]_vars

\* ----- the end of a worker, step by step ------------------------------------
\* The target raised an Exception: the handler of ThreadWithError.run sets
\* self.error; the thread is still alive until run() has returned.
HandlerSetsError(u) ==
    /\ thread_list[u].pos = "running"
    /\ thread_list' = [thread_list EXCEPT ![u].pos = "exiting",
                                          ![u].error = TRUE,
                                          ![u].raised = "Exception"]
    /\ UNCHANGED <<clients, pc, phase, i, j, result, lockobj, test_per_run_results,
                   test_run_averages, clock, join_start, fin, phase_log, abort>>
    /\ UNCHANGED <<call_log, teardown_log, report_out, cmds>>
    /\ UNCHANGED <<timeout_sec, args, remote_log>>
    /\ UNCHANGED <<tests, ec2_instances, wait>>

\* run() returns after the handler and the thread ends.
RunReturns(u) ==
    /\ thread_list[u].pos = "exiting"
    /\ thread_list' = [thread_list EXCEPT ![u].pos = "done"]
    /\ fin' = [fin EXCEPT ![u] = clock]
    /\ UNCHANGED <<clients, pc, phase, i, j, result, lockobj, test_per_run_results,
                   test_run_averages, clock, join_start, phase_log, abort>>
    /\ UNCHANGED <<call_log, teardown_log, report_out, cmds>>
    /\ UNCHANGED <<timeout_sec, args, remote_log>>
    /\ UNCHANGED <<tests, ec2_instances, wait>>

\* The start loop and the join loop of lines 780-793 with the end of a
\* raising worker in its two steps.
NextJoin ==
    \/ InFirstLoops /\ StartThread
    \/ InFirstLoops /\ Tick
    \/ InFirstLoops /\ JoinReturns
    \/ InFirstLoops /\ JoinTimesOut
    \/ \E u \in Units: InFirstLoops /\ TargetReturns(u)
    \/ \E u \in Units: InFirstLoops /\ HandlerSetsError(u)
    \/ \E u \in Units: RunReturns(u)

SpecJoin == Init /\ [][NextJoin]_vars

\* ----- RunAverages on its own -----------------------------------------------
\* Every RunResult parse_output can build with durations up to MaxTimeMs.
RunResultSet ==
    { parse_output(0, c, r, d) : c \in Measurements(MaxTimeMs),
                                 r \in Measurements(MaxTimeMs),
                                 d \in Measurements(MaxTimeMs) }

RunResultLists == UNION { [1..n -> RunResultSet] : n \in 0..MaxListLen }

\* A caller holding any list of RunResults, about to build its RunAverages.
InitAverage ==
    /\ clients = 1
    /\ pc = "aggregate"
    /\ phase = "cleanup"
    /\ i = 1
    /\ j = 0
    /\ thread_list = [u \in 1..1 |-> NoThread]
    /\ result = [u \in 1..1 |-> NoResult]
    /\ lockobj = 0
    /\ test_per_run_results \in RunResultLists
    /\ test_run_averages = << >>
    /\ clock = 0
    /\ join_start = 0
    /\ fin = [u \in 1..1 |-> -1]
    /\ phase_log = << >>
    /\ abort = << >>
    /\ call_log = << >>
    /\ teardown_log = << >>
    /\ report_out = NoReport
    /\ cmds = NoCommands
    /\ timeout_sec = JoinTimeout
    /\ tests = << >>
    /\ ec2_instances = << >>
    /\ wait = NoWait
    /\ args = GivenArgs(clients)
    /\ remote_log = Provisioning

\* RunAverages(run_result_list, run_id) applied to the list.
ComputeAverages ==
    /\ pc = "aggregate"
    /\ test_run_averages' = <<RunAverages(test_per_run_results, i)>>
    /\ pc' = "aggregated"
    /\ UNCHANGED <<clients, phase, i, j, thread_list, result, lockobj,
                   test_per_run_results, clock, join_start, fin, phase_log, abort>>
    /\ UNCHANGED <<call_log, teardown_log, report_out, cmds>>
    /\ UNCHANGED <<timeout_sec, args, remote_log>>
    /\ UNCHANGED <<tests, ec2_instances, wait>>

SpecAverage == InitAverage /\ [][ComputeAverages]_vars

\* ----- execute_test and parse_output on their own, lines 362-450 -----------
\* Texts are sequences of one-character strings.
REAL == <<"r", "e", "a", "l">>
DigitSeq == <<"0", "1", "2", "3", "4", "5", "6", "7", "8", "9">>
DigitChars == {DigitSeq[n] : n \in 1..10}

\* The characters \s of the pattern matches.
Whitespace == {" ", "\t", "\n", "\r", "\f"}

\* int(s) of a string of decimal digits.
RECURSIVE int(_)
int(digits) ==
    IF digits = << >> THEN 0
    ELSE 10 * int(SubSeq(digits, 1, Len(digits) - 1))
         + (CHOOSE n \in 0..9: DigitSeq[n + 1] = digits[Len(digits)])

\* Variant of _get_time_ms: the minutes are scaled to seconds only.
get_time_ms_MinutesAsSeconds(minutes, seconds, millisec) ==
    int(minutes) * 60 + int(seconds) * 1000 + int(millisec)

\* TestInstance._get_time_ms, lines 404-409.
get_time_ms(minutes, seconds, millisec) ==
    int(minutes) * 60 * 1000 + int(seconds) * 1000 + int(millisec)

\* The first position from p on whose character is not in S: where a greedy
\* \s+ or \d+ that starts at p stops.
RECURSIVE RunEnd(_, _, _)
RunEnd(text, p, S) ==
    IF p <= Len(text) /\ text[p] \in S THEN RunEnd(text, p + 1, S) ELSE p

\* The literal lit stands at position p of text.
Literal(text, p, lit) ==
    /\ p + Len(lit) - 1 <= Len(text)
    /\ SubSeq(text, p, p + Len(lit) - 1) = lit

\* r'real\s+(\d+)m(\d+)\.(\d+)s' matched at position p: the three groups, or
\* << >> when the pattern does not match there.  What follows each greedy run
\* is a character the run cannot hold, so the longest run is the only one
\* that can lead to a match.
MatchAt(text, p) ==
    LET sp == p + Len(REAL)
        g1 == RunEnd(text, sp, Whitespace)
        m == RunEnd(text, g1, DigitChars)
        g2 == m + 1
        dot == RunEnd(text, g2, DigitChars)
        g3 == dot + 1
        s == RunEnd(text, g3, DigitChars)
    IN IF /\ Literal(text, p, REAL)
          /\ g1 > sp
          /\ m > g1
          /\ Literal(text, m, <<"m">>)
          /\ dot > g2
          /\ Literal(text, dot, <<".">>)
          /\ s > g3
          /\ Literal(text, s, <<"s">>)
       THEN <<SubSeq(text, g1, m - 1), SubSeq(text, g2, dot - 1),
              SubSeq(text, g3, s - 1)>>
       ELSE << >>

\* re.search(time_pattern, text): the groups of the leftmost match, or << >>.
re_search(text) ==
    LET hits == {p \in 1..Len(text): MatchAt(text, p) # << >>}
    IN IF hits = {} THEN << >>
       ELSE MatchAt(text, CHOOSE p \in hits: \A q \in hits: p <= q)

\* One "match = re.search(...); if match: ... else: ..." of parse_output: the
\* status and the time the RunResult gets for one output.
ParseField(text) ==
    LET match == re_search(text)
    IN IF match # << >>
       THEN <<TRUE, get_time_ms(match[1], match[2], match[3])>>
       ELSE <<FALSE, 0>>

\* parse_output(create_output, read_output, delete_output), lines 411-450.
parse_output_text(resultId, create_output, read_output, delete_output) ==
    parse_output(resultId, ParseField(create_output), ParseField(read_output),
                 ParseField(delete_output))

\* ----- what run_command_on_gos can give execute_test -----------------------
\* The decimal numeral of n, zero-padded to width digits.
RECURSIVE Numeral(_, _)
Numeral(n, width) ==
    IF n < 10 /\ width <= 1 THEN <<DigitSeq[n + 1]>>
    ELSE Append(Numeral(n \div 10, width - 1), DigitSeq[(n % 10) + 1])

\* run_command_on_gos returned this stdout (line 529); expect is the status
\* and the duration the text stands for.
Stdout(text, expect) == [kind |-> "stdout", text |-> text, expect |-> expect]

\* run_command_on_gos raised RuntimeError (line 528).
CommandFails == [kind |-> "error", text |-> << >>, expect |-> <<FALSE, 0>>]

\* What the shell's "time" prints after the output of the loop: a real line of
\* m minutes, s seconds and f thousandths, the fraction printed over width
\* digits, then the user line.
TimeReport(space, m, s, f, width) ==
    <<"\n">> \o REAL \o space \o Numeral(m, 1) \o <<"m">> \o Numeral(s, 1)
        \o <<".">> \o Numeral(f, width) \o <<"s", "\n">>
        \o <<"u", "s", "e", "r", "\t", "0", "m", "0", ".", "0", "0", "1", "s", "\n">>

TimedOutputs ==
    { Stdout(TimeReport(space, m, s, f[1], f[2]),
             <<TRUE, m * 60000 + s * 1000 + f[1]>>) :
        space \in {<<"\t">>, <<" ", " ">>},
        m \in {0, 1, 12},
        s \in {0, 2, 59},
        f \in {<<0, 3>>, <<7, 3>>, <<345, 3>>, <<999, 3>>, <<5, 1>>, <<1234, 4>>} }

\* Outputs around the edges of the pattern.
EdgeOutputs ==
    LET t1m2 == <<"1", "m", "2">>
        f345 == <<".", "3", "4", "5">>
    IN { Stdout(<< >>, <<FALSE, 0>>),
         Stdout(REAL \o <<" ">> \o t1m2 \o f345 \o <<"s">>, <<TRUE, 62345>>),
         Stdout(REAL \o <<" ">> \o t1m2 \o <<"s">>, <<FALSE, 0>>),
         Stdout(REAL \o t1m2 \o f345 \o <<"s">>, <<FALSE, 0>>),
         Stdout(REAL \o <<" ">> \o t1m2 \o f345, <<FALSE, 0>>),
         Stdout(REAL \o <<" ">> \o t1m2 \o <<".", "s">>, <<FALSE, 0>>),
         Stdout(REAL \o <<" ", "m", "2">> \o f345 \o <<"s">>, <<FALSE, 0>>),
         Stdout(REAL \o <<" ", "1", "m", " ", "2">> \o f345 \o <<"s">>, <<FALSE, 0>>),
         Stdout(REAL \o <<" ">> \o t1m2 \o <<",", "3", "4", "5", "s">>, <<FALSE, 0>>),
         Stdout(<<"R", "e", "a", "l", " ">> \o t1m2 \o f345 \o <<"s">>, <<FALSE, 0>>),
         Stdout(<<"u", "s", "e", "r", " ">> \o t1m2 \o f345 \o <<"s">>, <<FALSE, 0>>),
         Stdout(<<"x">> \o REAL \o <<" ", "\t", "3", "m", "0", "4", ".", "0", "5", "0", "s", "y">>,
                <<TRUE, 184050>>),
         Stdout(REAL \o <<" ">> \o t1m2 \o <<"s", " ">> \o REAL
                    \o <<" ", "0", "m", "1", ".", "5", "s">>, <<TRUE, 1005>>),
         Stdout(REAL \o <<" ", "0", "m", "1", ".", "0", "0", "0", "s", "\n">> \o REAL
                    \o <<" ", "0", "m", "2", ".", "0", "0", "0", "s">>, <<TRUE, 1000>>),
         Stdout(REAL \o REAL \o <<"\n">> \o t1m2 \o f345 \o <<"s">>, <<TRUE, 62345>>) }

\* The outcomes one command is drawn from when it is the one looked at, and
\* the few the two other commands are drawn from.
CommandOutcomes == TimedOutputs \cup EdgeOutputs \cup {CommandFails}

OtherOutcomes ==
    { CommandFails, Stdout(<< >>, <<FALSE, 0>>),
      Stdout(TimeReport(<<"\t">>, 0, 0, 4, 3), <<TRUE, 4>>) }

\* Variant of Guarded: the handler logs the error and raises it again.
Guarded_Reraise(outcome) ==
    IF outcome.kind = "error" THEN [raised |-> TRUE, output |-> << >>]
    ELSE [raised |-> FALSE, output |-> outcome.text]

\* One "try: x_output = run_command_on_gos(...) except: x_output = ''" of
\* execute_test, lines 384-401.
Guarded(outcome) ==
    IF outcome.kind = "error" THEN [raised |-> FALSE, output |-> << >>]
    ELSE [raised |-> FALSE, output |-> outcome.text]

\* A call of execute_test on one unit, the outcome of its three commands
\* chosen beforehand.
InitParse ==
    /\ clients = 1
    /\ pc = "execute_test"
    /\ phase = "execute_test"
    /\ i = 1
    /\ j = 0
    /\ thread_list = [u \in 1..1 |-> StartedThread("run_test")]
    /\ result = [u \in 1..1 |-> NoResult]
    /\ lockobj = 0
    /\ test_per_run_results = << >>
    /\ test_run_averages = << >>
    /\ clock = 0
    /\ join_start = 0
    /\ fin = [u \in 1..1 |-> -1]
    /\ phase_log = << >>
    /\ abort = << >>
    /\ call_log = << >>
    /\ teardown_log = << >>
    /\ report_out = NoReport
    /\ \E k \in 1..3: \E looked \in CommandOutcomes:
          \E others \in [1..3 -> OtherOutcomes]:
              cmds = [out |-> [n \in 1..3 |-> IF n = k THEN looked ELSE others[n]],
                      attempted |-> 0, outputs |-> << >>, raised |-> FALSE]
    /\ timeout_sec = JoinTimeout
    /\ tests = << >>
    /\ ec2_instances = << >>
    /\ wait = NoWait
    /\ args = GivenArgs(clients)
    /\ remote_log = Provisioning

\* The next of the three guarded commands of execute_test runs.
RunCommand ==
    /\ pc = "execute_test"
    /\ cmds.attempted < 3
    /\ LET got == Guarded(cmds.out[cmds.attempted + 1])
       IN /\ cmds' = [cmds EXCEPT !.attempted = @ + 1,
                                  !.outputs = Append(@, got.output),
                                  !.raised = got.raised]
          /\ pc' = IF got.raised THEN "raised" ELSE pc
    /\ UNCHANGED <<clients, phase, i, j, thread_list, result, lockobj,
                   test_per_run_results, test_run_averages, clock, join_start,
                   fin, phase_log, abort>>
    /\ UNCHANGED <<call_log, teardown_log, report_out>>
    /\ UNCHANGED <<timeout_sec, args, remote_log>>
    /\ UNCHANGED <<tests, ec2_instances, wait>>

\* return self.parse_output(create_output, read_output, delete_output).
ParseOutput ==
    /\ pc = "execute_test"
    /\ cmds.attempted = 3
    /\ result' = [result EXCEPT
           ![1] = parse_output_text(1, cmds.outputs[1], cmds.outputs[2],
                                    cmds.outputs[3])]
    /\ pc' = "returned"
    /\ UNCHANGED <<clients, phase, i, j, thread_list, lockobj,
                   test_per_run_results, test_run_averages, clock, join_start,
                   fin, phase_log, abort>>
    /\ UNCHANGED <<call_log, teardown_log, report_out, cmds>>
    /\ UNCHANGED <<timeout_sec, args, remote_log>>
    /\ UNCHANGED <<tests, ec2_instances, wait>>

NextParse ==
    \/ RunCommand
    \/ ParseOutput

SpecParse == InitParse /\ [][NextParse]_vars

\* ----- a timed scenario: two units, the second slow in pre_test_setup -------
\* How long the target of unit u takes in the current phase: the
\* pre_test_setup of the second unit sleeps 10 time units, every other call
\* returns at once (ParallelTest(sleep=10) next to ParallelTest()).
ScenarioDuration(u) ==
    IF u = 2 /\ phase = "pre_test_setup" THEN 10 ELSE 0

\* Some worker has a step to take at the current time.
WorkerPending ==
    \E u \in Units:
        \/ thread_list[u].pos \in {"acquire", "locked"}
        \/ thread_list[u].pos = "running" /\ clock >= ScenarioDuration(u)

\* Two units, the join timeout either shorter or longer than the sleep.
InitScenario ==
    /\ clients = 2
    /\ pc = "start"
    /\ phase = "setup_environment"
    /\ i = 0
    /\ j = 0
    /\ thread_list = [u \in 1..2 |-> NoThread]
    /\ result = [u \in 1..2 |-> NoResult]
    /\ lockobj = 0
    /\ test_per_run_results = << >>
    /\ test_run_averages = << >>
    /\ clock = 0
    /\ join_start = 0
    /\ fin = [u \in 1..2 |-> -1]
    /\ phase_log = << >>
    /\ abort = << >>
    /\ call_log = << >>
    /\ teardown_log = << >>
    /\ report_out = NoReport
    /\ cmds = NoCommands
    /\ timeout_sec \in {5, 15}
    /\ tests = << >>
    /\ ec2_instances = << >>
    /\ wait = NoWait
    /\ args = GivenArgs(2)
    /\ remote_log = Provisioning

\* The driver and its workers when every call lasts what the scenario says
\* and nothing raises: time passes only when no worker has a step to take,
\* and a target returns when its duration has passed.
NextScenario ==
    \/ StartThread
    \/ ~WorkerPending /\ Tick
    \/ JoinReturns
    \/ JoinTimesOut
    \/ \E u \in Units: clock = ScenarioDuration(u) /\ TargetReturns(u)
    \/ \E u \in Units: AcquireLock(u)
    \/ \E u \in Units: AppendResult(u)
    \/ CleanupCall
    \/ CleanupReturns
    \/ StoreAverages
    \/ DestroyAllInstances /\ pc' = "delete_bucket"
    \/ DeleteBucket /\ pc' = "report"
    \/ ReportResults

SpecScenario == InitScenario /\ [][NextScenario]_vars

\* ----- main before the try block: checks and provisioning, lines 703-768 ----
\* The command lines explored: each option given or not, clients from -1 up,
\* the key-pair path missing, a directory or a file.
ArgsSet ==
    [clients : {<< >>} \cup {<<n>> : n \in -1..MaxClients},
     bucket : {<< >>, <<"given">>},
     region : {<< >>, <<"given">>},
     key : {<< >>, <<"given">>},
     secretkey : {<< >>, <<"given">>},
     keypairname : {<< >>, <<"given">>},
     keypairfile : {<< >>, <<"missing">>, <<"directory">>, <<"file">>}]

\* Variant of FirstFailure: the key-pair path is not tested with isfile.
FirstFailure_NoFileCheck(a) ==
    IF a.clients = << >> \/ a.clients[1] <= 0 THEN "Invalid number of clients"
    ELSE IF a.bucket = << >> THEN "Bucket not specified"
    ELSE IF a.region = << >> THEN "Region name not specified"
    ELSE IF a.key = << >> THEN "access key not specified"
    ELSE IF a.secretkey = << >> THEN "secret key not specified"
    ELSE IF a.keypairname = << >> THEN "keypair not specified"
    ELSE IF a.keypairfile = << >> THEN "keypair file not specified"
    ELSE "none"

\* The checks of lines 718-747 in their order: the message of the exception
\* main raises, or "none".  "args.clients <= 0" is true of None as well (the
\* program is Python 2, where None is smaller than every integer).
FirstFailure(a) ==
    IF a.clients = << >> \/ a.clients[1] <= 0 THEN "Invalid number of clients"
    ELSE IF a.bucket = << >> THEN "Bucket not specified"
    ELSE IF a.region = << >> THEN "Region name not specified"
    ELSE IF a.key = << >> THEN "access key not specified"
    ELSE IF a.secretkey = << >> THEN "secret key not specified"
    ELSE IF a.keypairname = << >> THEN "keypair not specified"
    ELSE IF a.keypairfile = << >> THEN "keypair file not specified"
    ELSE IF a.keypairfile # <<"file">> THEN "keypair file not found"
    ELSE "none"

\* main has parsed the command line and made no call yet.
InitValidate ==
    /\ args \in ArgsSet
    /\ remote_log = << >>
    /\ pc = "parse_args"
    /\ clients = 1
    /\ phase = "setup_environment"
    /\ i = 0
    /\ j = 0
    /\ thread_list = [u \in 1..1 |-> NoThread]
    /\ result = [u \in 1..1 |-> NoResult]
    /\ lockobj = 0
    /\ test_per_run_results = << >>
    /\ test_run_averages = << >>
    /\ clock = 0
    /\ join_start = 0
    /\ fin = [u \in 1..1 |-> -1]
    /\ phase_log = << >>
    /\ abort = << >>
    /\ call_log = << >>
    /\ teardown_log = << >>
    /\ report_out = NoReport
    /\ cmds = NoCommands
    /\ timeout_sec = JoinTimeout
    /\ tests = << >>
    /\ ec2_instances = << >>
    /\ wait = NoWait

\* What a step of main before the try block leaves alone.
BeforeTryFrame ==
    UNCHANGED <<clients, phase, i, j, thread_list, result, lockobj,
                test_per_run_results, test_run_averages, clock, join_start,
                fin, phase_log, call_log, teardown_log, report_out, cmds,
                timeout_sec, args, tests, ec2_instances, wait>>

\* Lines 718-747: the first check that fails raises and main ends.
Validate ==
    /\ pc = "parse_args"
    /\ IF FirstFailure(args) = "none"
       THEN pc' = "cloud_provider.connect" /\ abort' = abort
       ELSE pc' = "invalid" /\ abort' = <<"parse_args", 0, FirstFailure(args)>>
    /\ remote_log' = remote_log
    /\ BeforeTryFrame

\* One call to the provisioner or the object store: it returns and main goes
\* on to the next call, or it raises and main ends.
RemoteCall(call, next) ==
    /\ pc = call
    /\ remote_log' = Append(remote_log, call)
    /\ \/ pc' = next
       \/ pc' = "crashed"
    /\ abort' = abort
    /\ BeforeTryFrame

\* Lines 750-755 and 758-759.
ConnectProvider == RemoteCall("cloud_provider.connect", "storage.connect")
ConnectStorage == RemoteCall("storage.connect", "bucket_exists")

\* Line 761: the bucket exists already, or not.
BucketExists ==
    \/ RemoteCall("bucket_exists", "erase_bucket")
    \/ RemoteCall("bucket_exists", "create_bucket")

\* Lines 762-768.
EraseBucket == RemoteCall("erase_bucket", "delete_bucket")
DeleteOldBucket == RemoteCall("delete_bucket", "create_bucket")
CreateBucket == RemoteCall("create_bucket", "create_instances")
CreateInstances == RemoteCall("create_instances", "try")

NextValidate ==
    \/ Validate
    \/ ConnectProvider
    \/ ConnectStorage
    \/ BucketExists
    \/ EraseBucket
    \/ DeleteOldBucket
    \/ CreateBucket
    \/ CreateInstances

SpecValidate == InitValidate /\ [][NextValidate]_vars

\* ----- TestInstance.perform_all_operations, classicTest.py lines 55-78 -------
\* What a method of a test object does when called: it returns, it raises an
\* Exception, or it raises something "except Exception" does not catch.
MethodOutcomes == {"returns", "Exception", "BaseException"}

\* A test object: a subclass of TestInstance with its four methods.
TestObjects == [{Phases[n] : n \in DOMAIN Phases} -> MethodOutcomes]

\* tests/serial_test.py lines 46-47: one test object, perform_all_operations
\* about to be called on it.
InitSerial ==
    /\ tests \in {<<t>> : t \in TestObjects}
    /\ pc = "serial"
    /\ clients = 1
    /\ phase = "setup_environment"
    /\ i = 0
    /\ j = 0
    /\ thread_list = [u \in 1..1 |-> NoThread]
    /\ result = [u \in 1..1 |-> NoResult]
    /\ lockobj = 0
    /\ test_per_run_results = << >>
    /\ test_run_averages = << >>
    /\ clock = 0
    /\ join_start = 0
    /\ fin = [u \in 1..1 |-> -1]
    /\ phase_log = << >>
    /\ abort = << >>
    /\ call_log = << >>
    /\ teardown_log = << >>
    /\ report_out = NoReport
    /\ cmds = NoCommands
    /\ timeout_sec = JoinTimeout
    /\ args = GivenArgs(clients)
    /\ remote_log = << >>
    /\ ec2_instances = << >>
    /\ wait = NoWait

\* What perform_all_operations leaves alone.
SerialFrame ==
    UNCHANGED <<clients, i, thread_list, result, lockobj, test_per_run_results,
                test_run_averages, clock, join_start, fin, teardown_log,
                report_out, cmds, timeout_sec, args, remote_log, tests,
                ec2_instances, wait>>

\* The next "try: self.<method>()" is entered: the method is called.
SerialCall ==
    /\ pc = "serial"
    /\ j < Len(Phases)
    /\ pc' = "in_method"
    /\ phase' = Phases[j + 1]
    /\ call_log' = Append(call_log, <<Phases[j + 1], 0, 1>>)
    /\ UNCHANGED <<j, phase_log, abort>>
    /\ SerialFrame

\* The method returns: on to the next try statement, or to the end.
SerialReturns ==
    /\ pc = "in_method"
    /\ tests[1][phase] = "returns"
    /\ j' = j + 1
    /\ pc' = IF j + 1 = Len(Phases) THEN "returned" ELSE "serial"
    /\ UNCHANGED <<phase, phase_log, abort, call_log>>
    /\ SerialFrame

\* Variant of SerialRaises: the handler logs and does not re-raise.
SerialRaises_Swallows ==
    /\ pc = "in_method"
    /\ tests[1][phase] # "returns"
    /\ phase_log' = Append(phase_log, <<phase, 0, 1, "Failed">>)
    /\ j' = j + 1
    /\ pc' = IF j + 1 = Len(Phases) THEN "returned" ELSE "serial"
    /\ UNCHANGED <<phase, abort, call_log>>
    /\ SerialFrame

\* The method raises: "except Exception" logs with log.exception and
\* re-raises; anything else passes through unlogged.
SerialRaises ==
    /\ pc = "in_method"
    /\ tests[1][phase] # "returns"
    /\ phase_log' = IF tests[1][phase] = "Exception"
                    THEN Append(phase_log, <<phase, 0, 1, "Failed">>)
                    ELSE phase_log
    /\ abort' = <<phase, 0, tests[1][phase]>>
    /\ pc' = "raised"
    /\ UNCHANGED <<phase, j, call_log>>
    /\ SerialFrame

NextSerial ==
    \/ SerialCall
    \/ SerialReturns
    \/ SerialRaises

SpecSerial == InitSerial /\ [][NextSerial]_vars

\* ----- CloudProviderAWS.create_instances on its own, lines 130-188 -----------
\* time.sleep(30) of the wait loop, in units of the clock.
SleepTime == 1

WaitPcs == {"wait_test", "wait_update", "wait_round_end", "wait_exit", "wait_returned"}

\* The ids handed to terminate_instances: one per instance of the reservation.
InstanceIds == [k \in DOMAIN ec2_instances |-> k]

\* main calls cloud_provider.create_instances(args.clients).
InitProvision ==
    /\ clients \in 1..MaxClients
    /\ pc = "create_instances"
    /\ remote_log = << >>
    /\ ec2_instances = << >>
    /\ wait = [NoWait EXCEPT !.timeout = 0] @@ [history |-> << >>]
    /\ clock = 0
    /\ abort = << >>
    /\ phase = "setup_environment"
    /\ i = 0
    /\ j = 0
    /\ thread_list = [u \in 1..clients |-> NoThread]
    /\ result = [u \in 1..clients |-> NoResult]
    /\ lockobj = 0
    /\ test_per_run_results = << >>
    /\ test_run_averages = << >>
    /\ join_start = 0
    /\ fin = [u \in 1..clients |-> -1]
    /\ phase_log = << >>
    /\ call_log = << >>
    /\ teardown_log = << >>
    /\ report_out = NoReport
    /\ cmds = NoCommands
    /\ timeout_sec = WaitTimeout
    /\ args = GivenArgs(clients)
    /\ tests = << >>

\* What create_instances and the methods it calls leave alone.
ProvisionFrame ==
    UNCHANGED <<clients, phase, i, j, thread_list, result, lockobj,
                test_per_run_results, test_run_averages, join_start, fin,
                phase_log, call_log, teardown_log, report_out, cmds,
                timeout_sec, args, tests>>

\* _wait_for_instance_state(timeout_sec, state) is entered, lines 164-165:
\* timeout = time.time() + timeout_sec, all_match_state = False.  The clock
\* counts from this moment.
StartWait(state, caller) ==
    /\ clock' = 0
    /\ wait' = [timeout |-> timeout_sec, state |-> state,
                all_match_state |-> FALSE, k |-> 0, seen |-> FALSE,
                returned |-> FALSE, done |-> FALSE, caller |-> caller,
                history |-> wait.history]
    /\ pc' = "wait_test"

\* Lines 131-139: run_instances raises, or it returns the reservation and the
\* wait for 'running' begins.
RunInstances ==
    /\ pc = "create_instances"
    /\ remote_log' = Append(remote_log, <<"run_instances", clients>>)
    /\ \/ /\ pc' = "create_raised"
          /\ abort' = <<"create_instances", 0, "run_instances">>
          /\ UNCHANGED <<ec2_instances, wait, clock>>
       \/ /\ ec2_instances' = [k \in 1..clients |-> "pending"]
          /\ StartWait("running", "create_instances")
          /\ abort' = abort
    /\ ProvisionFrame

\* Line 166: the test of the while loop; line 167 when the loop is entered.
WaitTest ==
    /\ pc = "wait_test"
    /\ IF clock < wait.timeout /\ ~wait.all_match_state
       THEN /\ wait' = [wait EXCEPT !.all_match_state = TRUE, !.k = 1]
            /\ pc' = "wait_update"
       ELSE /\ pc' = "wait_exit"
            /\ wait' = wait
    /\ UNCHANGED <<clock, abort, remote_log, ec2_instances>>
    /\ ProvisionFrame

\* Lines 168-178, one instance of the for loop: update() raises, or it returns
\* and the state of the instance is compared.
UpdateInstance ==
    /\ pc = "wait_update"
    /\ \E raises \in BOOLEAN:
          wait' = [wait EXCEPT
              !.all_match_state =
                  IF raises \/ ec2_instances[wait.k] # wait.state THEN FALSE ELSE @,
              !.k = @ + 1]
    /\ pc' = IF wait.k = Len(ec2_instances) THEN "wait_round_end" ELSE "wait_update"
    /\ UNCHANGED <<clock, abort, remote_log, ec2_instances>>
    /\ ProvisionFrame

\* Lines 180-182: the round is over; sleep when some instance did not match.
\* seen remembers whether some round found every instance in the state.
WaitRoundEnd ==
    /\ pc = "wait_round_end"
    /\ wait' = [wait EXCEPT !.seen = @ \/ wait.all_match_state]
    /\ clock' = IF wait.all_match_state THEN clock ELSE clock + SleepTime
    /\ pc' = "wait_test"
    /\ UNCHANGED <<abort, remote_log, ec2_instances>>
    /\ ProvisionFrame

\* Lines 183-188: after the loop the time is read again; False when it has
\* reached the deadline, True otherwise.
WaitExit ==
    /\ pc = "wait_exit"
    /\ wait' = [wait EXCEPT !.returned = ~(clock >= wait.timeout), !.done = TRUE,
                            !.history = Append(@, <<wait.state, ~(clock >= wait.timeout)>>)]
    /\ pc' = "wait_returned"
    /\ UNCHANGED <<clock, abort, remote_log, ec2_instances>>
    /\ ProvisionFrame

\* The caller of the wait goes on.  create_instances, lines 143-153: the list
\* of virtual instances is returned, or destroy_all_instances is called.
\* destroy_all_instances, lines 160-161, it raises when the wait failed;
\* when it returns, create_instances raises (line 145).
WaitReturns ==
    /\ pc = "wait_returned"
    /\ IF wait.caller = "create_instances"
       THEN /\ pc' = IF wait.returned THEN "create_returned" ELSE "terminate"
            /\ abort' = abort
       ELSE /\ pc' = "create_raised"
            /\ abort' = <<"create_instances", 0,
                          IF wait.returned THEN "create_instances"
                          ELSE "destroy_all_instances">>
    /\ UNCHANGED <<clock, wait, remote_log, ec2_instances>>
    /\ ProvisionFrame

\* Variant of TerminateInstances: destroy_all_instances is not called, line
\* 145 raises at once.
TerminateInstances_Skipped ==
    /\ pc = "terminate"
    /\ pc' = "create_raised"
    /\ abort' = <<"create_instances", 0, "create_instances">>
    /\ UNCHANGED <<ec2_instances, wait, clock, remote_log>>
    /\ ProvisionFrame

\* destroy_all_instances, lines 155-159: terminate_instances is called with
\* the id of every instance; it raises, or the instances start to shut down
\* and the wait for 'terminated' begins.
TerminateInstances ==
    /\ pc = "terminate"
    /\ remote_log' = Append(remote_log, <<"terminate_instances", InstanceIds>>)
    /\ \/ /\ pc' = "create_raised"
          /\ abort' = <<"create_instances", 0, "terminate_instances">>
          /\ UNCHANGED <<ec2_instances, wait, clock>>
       \/ /\ ec2_instances' = [k \in DOMAIN ec2_instances |-> "shutting-down"]
          /\ StartWait("terminated", "destroy_all_instances")
          /\ abort' = abort
    /\ ProvisionFrame

\* The provider brings an instance to its next state.
ProviderStep(k) ==
    /\ pc \in WaitPcs
    /\ ec2_instances[k] \in {"pending", "shutting-down"}
    /\ ec2_instances' = [ec2_instances EXCEPT
           ![k] = IF @ = "pending" THEN "running" ELSE "terminated"]
    /\ UNCHANGED <<pc, clock, abort, remote_log, wait>>
    /\ ProvisionFrame

\* Time passes while the wait runs (the calls of update take time).
AdvanceTime ==
    /\ pc \in WaitPcs
    /\ clock <= wait.timeout
    /\ clock' = clock + 1
    /\ UNCHANGED <<pc, abort, remote_log, wait, ec2_instances>>
    /\ ProvisionFrame

NextProvision ==
    \/ RunInstances
    \/ WaitTest
    \/ UpdateInstance
    \/ WaitRoundEnd
    \/ WaitExit
    \/ WaitReturns
    \/ TerminateInstances
    \/ \E k \in DOMAIN ec2_instances: ProviderStep(k)
    \/ AdvanceTime

SpecProvision == InitProvision /\ [][NextProvision]_vars

\* ----- TestInstance.setup_environment on one host, lines 304-343, with
\* ----- VirtualInstance.wait_for_gos_to_respond, lines 480-490 ----------------
\* The commands setup_environment runs after the wait, in their order.
InstallCommands ==
    <<"apt-get update", "apt-get install", "git clone", "autogen.sh",
      "configure", "make", "make install", "s3fs -h", "mkdir", "chmod">>

\* general_test_prep has called setup_environment on a test object.
InitSetup ==
    /\ pc = "wait_for_gos_to_respond"
    /\ cmds = NoCommands
    /\ wait = [NoWait EXCEPT !.timeout = 0] @@ [gos_responds |-> FALSE]
    /\ clock = 0
    /\ abort = << >>
    /\ timeout_sec = WaitTimeout
    /\ clients = 1
    /\ phase = "setup_environment"
    /\ i = 0
    /\ j = 0
    /\ thread_list = [u \in 1..1 |-> NoThread]
    /\ result = [u \in 1..1 |-> NoResult]
    /\ lockobj = 0
    /\ test_per_run_results = << >>
    /\ test_run_averages = << >>
    /\ join_start = 0
    /\ fin = [u \in 1..1 |-> -1]
    /\ phase_log = << >>
    /\ call_log = << >>
    /\ teardown_log = << >>
    /\ report_out = NoReport
    /\ args = GivenArgs(clients)
    /\ remote_log = Provisioning
    /\ tests = << >>
    /\ ec2_instances = << >>

\* What setup_environment leaves alone.
SetupFrame ==
    UNCHANGED <<clients, phase, i, j, thread_list, result, lockobj,
                test_per_run_results, test_run_averages, join_start, fin,
                phase_log, call_log, teardown_log, report_out, timeout_sec,
                args, remote_log, tests, ec2_instances>>

\* run_command_on_gos(command): the command is issued on the host and its
\* outcome recorded.
Issue(command, outcome) ==
    cmds' = [cmds EXCEPT !.attempted = @ + 1,
                         !.outputs = Append(@, <<command, outcome>>),
                         !.raised = (outcome = "failed")]

\* Lines 481-482: timeout = time.time() + timeout_sec, gos_responds = False.
GosWaitStart ==
    /\ pc = "wait_for_gos_to_respond"
    /\ wait' = [wait EXCEPT !.timeout = clock + timeout_sec, !.gos_responds = FALSE]
    /\ pc' = "gos_test"
    /\ UNCHANGED <<clock, cmds, abort>>
    /\ SetupFrame

\* Line 483: the test of the while loop.  When it fails the method returns
\* and setup_environment goes on with its commands.
GosTest ==
    /\ pc = "gos_test"
    /\ IF wait.timeout > clock /\ ~wait.gos_responds
       THEN pc' = "gos_probe" /\ wait' = wait
       ELSE pc' = "install" /\ wait' = [wait EXCEPT !.done = TRUE]
    /\ UNCHANGED <<clock, cmds, abort>>
    /\ SetupFrame

\* Lines 484-490: the probe 'echo hello' succeeds, or it raises and the
\* handler logs and sleeps.
GosProbe ==
    /\ pc = "gos_probe"
    /\ \/ /\ Issue("echo hello", "ok")
          /\ wait' = [wait EXCEPT !.gos_responds = TRUE]
          /\ clock' = clock
       \/ /\ Issue("echo hello", "failed")
          /\ wait' = wait
          /\ clock' = clock + SleepTime
    /\ pc' = "gos_test"
    /\ abort' = abort
    /\ SetupFrame

\* Time passes while a probe is under way.
ProbeTakesTime ==
    /\ pc = "gos_probe"
    /\ clock < wait.timeout
    /\ clock' = clock + 1
    /\ UNCHANGED <<pc, wait, cmds, abort>>
    /\ SetupFrame

\* Number of commands of InstallCommands issued so far.
Installed ==
    Len(SelectSeq(cmds.outputs, LAMBDA c: c[1] # "echo hello"))

\* Lines 321-343: the next command of setup_environment; a command that fails
\* makes run_command_on_gos raise, which ends setup_environment.
InstallCommand ==
    /\ pc = "install"
    /\ \E outcome \in {"ok", "failed"}:
          /\ Issue(InstallCommands[Installed + 1], outcome)
          /\ IF outcome = "failed"
             THEN pc' = "raised" /\ abort' = <<"setup_environment", 0, "error">>
             ELSE /\ pc' = IF Installed + 1 = Len(InstallCommands)
                           THEN "returned" ELSE "install"
                  /\ abort' = abort
    /\ UNCHANGED <<clock, wait>>
    /\ SetupFrame

NextSetup ==
    \/ GosWaitStart
    \/ GosTest
    \/ GosProbe
    \/ ProbeTakesTime
    \/ InstallCommand

SpecSetup == InitSetup /\ [][NextSetup]_vars

\* ----- PerformParallelOperations, classicTest.py lines 81-108 -----------------
\* The values given as test_instances: nothing (None, written << >>), or a
\* list, written <<list>>, of zero or more test objects.
TestInstanceArgs ==
    {<< >>} \cup {<<[k \in 1..n |-> [sleep |-> 0]]>> : n \in 0..MaxClients}

\* "not self.tests or len(self.tests) == 0", line 85.
NoTestsGiven(t) == t = << >> \/ Len(t[1]) = 0

\* PerformParallelOperations(test_instances=...) is about to be constructed.
InitExecutor ==
    /\ tests \in TestInstanceArgs
    /\ pc = "construct"
    /\ clients = 0
    /\ phase = "setup_environment"
    /\ i = 0
    /\ j = 0
    /\ thread_list = << >>
    /\ result = << >>
    /\ lockobj = 0
    /\ test_per_run_results = << >>
    /\ test_run_averages = << >>
    /\ clock = 0
    /\ join_start = 0
    /\ fin = << >>
    /\ phase_log = << >>
    /\ abort = << >>
    /\ call_log = << >>
    /\ teardown_log = << >>
    /\ report_out = NoReport
    /\ cmds = NoCommands
    /\ timeout_sec = JoinTimeout
    /\ args = GivenArgs(1)
    /\ remote_log = << >>
    /\ ec2_instances = << >>
    /\ wait = NoWait

\* Variant of Construct: only a missing list is refused.
Construct_NoneOnly ==
    /\ pc = "construct"
    /\ IF tests = << >>
       THEN /\ pc' = "raised"
            /\ abort' = <<"__init__", 0, "No tests specified">>
            /\ UNCHANGED <<clients, thread_list, result, fin>>
       ELSE /\ pc' = "start"
            /\ abort' = abort
            /\ clients' = Len(tests[1])
            /\ thread_list' = [u \in 1..Len(tests[1]) |-> NoThread]
            /\ result' = [u \in 1..Len(tests[1]) |-> NoResult]
            /\ fin' = [u \in 1..Len(tests[1]) |-> -1]
    /\ UNCHANGED <<phase, i, j, lockobj, test_per_run_results, test_run_averages,
                   clock, join_start, phase_log, call_log, teardown_log,
                   report_out, cmds, timeout_sec, args, remote_log, tests,
                   ec2_instances, wait>>

\* __init__, lines 82-86: raises when no test object was given; otherwise the
\* executor exists and perform_all_operations starts its first method over
\* self.tests.
Construct ==
    /\ pc = "construct"
    /\ IF NoTestsGiven(tests)
       THEN /\ pc' = "raised"
            /\ abort' = <<"__init__", 0, "No tests specified">>
            /\ UNCHANGED <<clients, thread_list, result, fin>>
       ELSE /\ pc' = "start"
            /\ abort' = abort
            /\ clients' = Len(tests[1])
            /\ thread_list' = [u \in 1..Len(tests[1]) |-> NoThread]
            /\ result' = [u \in 1..Len(tests[1]) |-> NoResult]
            /\ fin' = [u \in 1..Len(tests[1]) |-> -1]
    /\ UNCHANGED <<phase, i, j, lockobj, test_per_run_results, test_run_averages,
                   clock, join_start, phase_log, call_log, teardown_log,
                   report_out, cmds, timeout_sec, args, remote_log, tests,
                   ec2_instances, wait>>

\* The constructor, then the start loop and the join loop of _perform_ops
\* (lines 93-108) for the first method.  The workers are followed to their
\* end; what they append to self.results (lines 88-91) is not represented.
NextExecutor ==
    \/ Construct
    \/ InFirstLoops /\ StartThread
    \/ InFirstLoops /\ Tick
    \/ InFirstLoops /\ JoinReturns
    \/ InFirstLoops /\ JoinTimesOut
    \/ \E u \in Units: InFirstLoops /\ TargetReturns(u)
    \/ \E u \in Units: InFirstLoops /\ TargetRaises(u)

SpecExecutor == InitExecutor /\ [][NextExecutor]_vars

\* ===== Properties ===========================================================
Last(seq) == seq[Len(seq)]

\* The driver has left the try block (lines 836-841).
AfterTry == pc \in {"destroy", "delete_bucket", "report", "done", "crashed"}

\* C1: a threaded phase is declared ok only when every one of its workers has
\* terminated and none of them raised; a worker that raised or is still running
\* makes the join loop raise instead.
C1_FailFastOutcome ==
    [][ ( /\ pc = "join"
          /\ Len(phase_log') = Len(phase_log) + 1
          /\ Last(phase_log')[4] = "ok" )
        => \A u \in 1..Members:
              /\ thread_list[u].pos = "done"
              /\ ~thread_list[u].error ]_vars

C1_Witness ==
    \E n \in DOMAIN phase_log: phase_log[n] = <<"execute_test", 2, 2, "ok">>

\* C2 (as stated): after a failed execute_test call the accumulator holds no
\* result appended by a worker of that call.
C2_NoPartialCredit ==
    (abort # << >> /\ abort[1] = "execute_test")
    => \A n \in DOMAIN test_per_run_results:
           test_per_run_results[n].level # abort[2]

\* C2 (amended): after a failed execute_test call at level L the report holds
\* the entries of the levels 1..L-1 only, and never gains one: no average is
\* computed from the results the workers of the failed call appended.
C2_NoReportFromFailedCall ==
    (abort # << >> /\ abort[1] = "execute_test")
    => /\ Len(test_run_averages) = abort[2] - 1
       /\ \A n \in DOMAIN test_run_averages: test_run_averages[n].run_id < abort[2]

C2_Witness ==
    /\ pc = "done"
    /\ abort # << >> /\ abort[1] = "execute_test" /\ abort[2] = 2
    /\ \E n \in DOMAIN test_per_run_results: test_per_run_results[n].level = 2

\* The driver has joined the thread of unit u in the current threaded phase and
\* found it neither alive nor in error.
JoinedOk(u) ==
    \/ pc = "join" /\ u < j
    \/ pc \in {"cleanup", "in_cleanup", "averages"} /\ u <= i

\* C3 (as stated): a unit is found ok only if its call ended within
\* JoinTimeout of the launch.
C3_PerUnitTimeout ==
    \A u \in Units: JoinedOk(u) => (fin[u] >= 0 /\ fin[u] <= JoinTimeout)

\* C3 (amended): the unit at position k of the join order is found ok only if
\* its call ended within k * JoinTimeout of the launch.
C3_PositionalTimeout ==
    \A u \in Units: JoinedOk(u) => (fin[u] >= 0 /\ fin[u] <= u * JoinTimeout)

C3_Witness ==
    /\ pc = "averages"
    /\ i = 2
    /\ fin[2] = 2 * JoinTimeout

\* The phase call that precedes the call of phase p at level l.
PrevCall(p, l) ==
    IF p = "pre_test_setup"
    THEN IF l = 1 THEN <<"setup_environment", 0>> ELSE <<"cleanup", l - 1>>
    ELSE IF p = "execute_test" THEN <<"pre_test_setup", l>>
    ELSE <<"execute_test", l>>

\* The phase calls completed before the current one.
Earlier == SelectSeq(phase_log, LAMBDA e: <<e[1], e[2]>> # <<phase, i>>)

\* A worker (or, for cleanup, a call) of the current phase has been started.
CurrentPhaseStarted ==
    IF phase = "cleanup" THEN pc = "in_cleanup"
    ELSE \E u \in Units: thread_list[u].target = TargetOf(phase)

\* C4: the phase calls follow one another in the order setup_environment,
\* then pre_test_setup, execute_test, cleanup level by level, and nothing of a
\* phase is started before the call before it has returned ok.
C4_PhaseOrder ==
    /\ \A n \in DOMAIN phase_log:
          IF n = 1 THEN phase_log[n][1] = "setup_environment"
          ELSE /\ phase_log[n][1] # "setup_environment"
               /\ phase_log[n - 1][4] = "ok"
               /\ <<phase_log[n - 1][1], phase_log[n - 1][2]>>
                      = PrevCall(phase_log[n][1], phase_log[n][2])
    /\ CurrentPhaseStarted =>
          IF phase = "setup_environment" THEN Earlier = << >>
          ELSE /\ Earlier # << >>
               /\ Last(Earlier)[4] = "ok"
               /\ <<Last(Earlier)[1], Last(Earlier)[2]>> = PrevCall(phase, i)

C4_Witness ==
    /\ phase = "pre_test_setup" /\ i = 2 /\ pc = "join"
    /\ thread_list[2].pos = "running"

\* C5: once a phase of level L has failed the driver is past the try block,
\* still at phase and level of the failure: nothing later was started, the
\* failed call is the last one of the log, and no cleanup call is in progress.
C5_AbortPolicy ==
    abort # << >>
    => /\ AfterTry
       /\ phase = abort[1] /\ i = abort[2]
       /\ <<Last(phase_log)[1], Last(phase_log)[2], Last(phase_log)[4]>> = abort
       /\ \A u \in Units:
             thread_list[u].target \in
                 {"none", TargetOf(abort[1])}

C5_Witness ==
    /\ pc = "done" /\ clients = 2
    /\ abort = <<"cleanup", 1, "error">>

\* The results the workers of level l appended, in the order of the accumulator.
ResultsOfLevel(l) == SelectSeq(test_per_run_results, LAMBDA r: r.level = l)

\* C6: the report entry of level L is the RunAverages of exactly the L
\* results produced during level L.
C6_LevelScoped ==
    \A n \in DOMAIN test_run_averages:
        test_run_averages[n] = RunAverages(ResultsOfLevel(n), n)

\* Number of results of the list whose status for an operation is True, and
\* the sum of their durations.
RECURSIVE PassCount(_, _)
PassCount(list, status) ==
    IF list = << >> THEN 0
    ELSE (IF Head(list)[status] THEN 1 ELSE 0) + PassCount(Tail(list), status)

RECURSIVE PassSum(_, _, _)
PassSum(list, status, time) ==
    IF list = << >> THEN 0
    ELSE (IF Head(list)[status] THEN Head(list)[time] ELSE 0)
         + PassSum(Tail(list), status, time)

\* C7: an operation without any passing result gets the average -1.
C7_Sentinel ==
    pc = "aggregated" =>
        LET a == test_run_averages[1]
            l == test_per_run_results
        IN /\ PassCount(l, "file_create_status") = 0 => a.average_create_time_ms = -1
           /\ PassCount(l, "file_read_status") = 0 => a.average_read_time_ms = -1
           /\ PassCount(l, "file_delete_status") = 0 => a.average_delete_time_ms = -1

\* C8: an operation with a passing result gets the integer quotient of the
\* durations of its passing results by their number.
C8_AverageOfPassing ==
    pc = "aggregated" =>
        LET a == test_run_averages[1]
            l == test_per_run_results
        IN /\ PassCount(l, "file_create_status") > 0 =>
                a.average_create_time_ms =
                    PassSum(l, "file_create_status", "file_create_time_ms")
                        \div PassCount(l, "file_create_status")
           /\ PassCount(l, "file_read_status") > 0 =>
                a.average_read_time_ms =
                    PassSum(l, "file_read_status", "file_read_time_ms")
                        \div PassCount(l, "file_read_status")
           /\ PassCount(l, "file_delete_status") > 0 =>
                a.average_delete_time_ms =
                    PassSum(l, "file_delete_status", "file_delete_time_ms")
                        \div PassCount(l, "file_delete_status")

\* C9: at level i the threads of pre_test_setup and execute_test exist for the
\* units 1..i only, started in that order, the cleanup calls go through the
\* same units in the same order, and a ramp phase that returns ok has run over
\* as many units as its level.
C9_Prefix ==
    /\ (phase # "setup_environment" /\ pc \in {"start", "join"}) =>
          /\ i \in 1..clients
          /\ \A u \in Units:
                IF u <= (IF pc = "start" THEN j ELSE i)
                THEN thread_list[u].target = TargetOf(phase)
                ELSE thread_list[u] = NoThread
    /\ pc \in {"cleanup", "in_cleanup"} => (j < i /\ i <= clients)
    /\ pc = "averages" => j = i
    /\ \A n \in DOMAIN phase_log:
          (phase_log[n][1] # "setup_environment" /\ phase_log[n][4] = "ok")
          => phase_log[n][3] = phase_log[n][2]

C9_Witness ==
    /\ clients = 2 /\ i = 1 /\ phase = "execute_test" /\ pc = "join"
    /\ thread_list[1].pos = "running" /\ thread_list[2] = NoThread

\* The log of a run over n units in which every phase call returns ok.
ExpectedLog(n) ==
    [k \in 1..(3 * n + 1) |->
        IF k = 1 THEN <<"setup_environment", 0, n, "ok">>
        ELSE LET l == ((k - 2) \div 3) + 1
             IN <<Phases[((k - 2) % 3) + 2], l, l, "ok">>]

\* C10: while nothing fails the phase calls are those of the levels 1, 2, ...
\* in order, each level over as many units as its number; a run that ends
\* without failure has gone through exactly clients levels; a pre_test_setup
\* thread of level L+1 exists only after the cleanup of level L has returned.
C10_RampMonotonic ==
    /\ abort = << >> =>
          /\ Len(phase_log) <= 3 * clients + 1
          /\ phase_log = SubSeq(ExpectedLog(clients), 1, Len(phase_log))
    /\ (AfterTry /\ abort = << >>) =>
          /\ phase_log = ExpectedLog(clients)
          /\ Len(test_run_averages) = clients
          /\ \A n \in 1..clients: test_run_averages[n].run_id = n
    /\ (phase = "pre_test_setup" /\ i > 1
            /\ \E u \in Units: thread_list[u].target = "pre_test_setup")
          => \E n \in DOMAIN phase_log:
                 phase_log[n] = <<"cleanup", i - 1, i - 1, "ok">>

C10_Witness ==
    /\ pc = "done" /\ abort = << >> /\ clients = 2
    /\ Len(test_run_averages) = 2

\* The phase p of level l ran over its l units and none of them failed.
PhaseSucceeded(p, l) ==
    \E n \in DOMAIN phase_log: phase_log[n] = <<p, l, l, "ok">>

\* The largest level k such that pre_test_setup, execute_test and cleanup
\* succeeded at every level up to k.
LastCompletedLevel ==
    LET completed == {l \in 1..clients:
                         \A n \in 2..4: PhaseSucceeded(Phases[n], l)}
    IN CHOOSE k \in 0..clients:
           /\ \A l \in 1..k: l \in completed
           /\ k < clients => (k + 1) \notin completed

\* C11: once the driver has left the ramp loop the accumulated report holds
\* exactly one entry per level 1..k, in increasing order, the entry of level
\* n carrying run id n, where k is the largest level such that pre_test_setup,
\* execute_test and cleanup succeeded at every level up to k; the rows that
\* report_results emits are those entries with RunId the level number as a
\* string; a level whose cleanup failed has no entry, and a failure of the
\* warm-up or of level 1 leaves the report empty.
C11_ReportContent ==
    /\ AfterTry =>
          /\ Len(test_run_averages) = LastCompletedLevel
          /\ \A n \in DOMAIN test_run_averages: test_run_averages[n].run_id = n
    /\ report_out.emitted =>
          /\ Len(report_out.rows) = LastCompletedLevel
          /\ \A n \in DOMAIN report_out.rows:
                 report_out.rows[n].RunId = ToString(n)
    /\ (AfterTry /\ abort # << >>) =>
          /\ Len(test_run_averages) = IF abort[2] = 0 THEN 0 ELSE abort[2] - 1
          /\ abort[2] <= 1 => test_run_averages = << >>

C11_Witness ==
    /\ pc = "done" /\ clients = 2
    /\ abort = <<"cleanup", 2, "error">>
    /\ Len(report_out.rows) = 1
    /\ report_out.rows[1].RunId = "1"

\* main has ended: it returned after the report or died of an uncaught error.
MainEnded == pc \in {"done", "crashed"}

Attempted(call) == \E n \in DOMAIN teardown_log: teardown_log[n] = call

\* C12: every run that entered the warm-up/ramp section and ended, after all
\* levels or after an abort at any phase of any level, has attempted both
\* destroy_all_instances and delete_bucket.
C12_TeardownAttempted ==
    MainEnded => /\ Attempted("destroy_all_instances")
                 /\ Attempted("delete_bucket")

\* C13: whatever the outcome of destroy_all_instances (return or raised
\* error), the driver goes on to attempt delete_bucket; the attempt of
\* destroy_all_instances never depends on the outcome of delete_bucket.
C13_TeardownIndependent ==
    [][/\ (pc = "destroy" /\ pc' # pc) => pc' = "delete_bucket"
       /\ pc' = "delete_bucket" => Attempted("destroy_all_instances")']_vars

\* C14: every run that got past provisioning ends with the report emitted
\* (logged, and written to the out-file when one was given), after completion
\* and after an abort alike, whatever the outcome of the teardown calls.
C14_ReportEmitted ==
    MainEnded => report_out.emitted

\* A step the driver takes by itself: starting a thread, the passing of time
\* in a timed join and the return of the join, entering a cleanup call,
\* storing the averages of a level.
DriverStep ==
    \/ StartThread
    \/ Tick
    \/ JoinReturns
    \/ JoinTimesOut
    \/ CleanupCall
    \/ StoreAverages

\* C15: inside the warm-up/ramp section the driver is never suspended without
\* a bound: whatever the units do, either it can take a step by itself or it
\* is in a join whose timeout is running, so a phase call that never returns
\* cannot keep it from reaching the teardown.
C15_BoundedWaiting ==
    ~AfterTry => ENABLED DriverStep

\* C16: the first calls the driver makes are the setup_environment calls of
\* the units 1..clients, one per unit of the full list, and no later call is a
\* setup_environment call: it is invoked exactly once per unit, before any
\* pre_test_setup; the warm-up join loop begins only when a general_test_prep
\* thread has been started on every unit, so that all of them run
\* concurrently; a call of a ramp level is made only after the warm-up
\* succeeded over all units; if the warm-up fails (error or timeout of any
\* unit) no call of a ramp level is ever made and the report stays empty.
C16_WarmUpOnce ==
    /\ \A n \in DOMAIN call_log:
           IF n <= clients
           THEN call_log[n] = <<"setup_environment", 0, n>>
           ELSE call_log[n][1] # "setup_environment"
    /\ Len(call_log) > clients =>
           /\ phase_log # << >>
           /\ phase_log[1] = <<"setup_environment", 0, clients, "ok">>
    /\ (phase = "setup_environment" /\ pc = "join") =>
           /\ Len(call_log) = clients
           /\ \A u \in Units: thread_list[u].target = "general_test_prep"
    /\ (abort # << >> /\ abort[1] = "setup_environment") =>
           /\ Len(call_log) = clients
           /\ test_run_averages = << >>
           /\ report_out.rows = << >>

C16_Witness ==
    /\ clients = 2 /\ pc = "done"
    /\ abort = <<"setup_environment", 0, "error">>
    /\ thread_list[1].error = FALSE /\ thread_list[2].error = TRUE
    /\ call_log = <<<<"setup_environment", 0, 1>>, <<"setup_environment", 0, 2>>>>
    /\ report_out.emitted

\* The thread of unit u ends in this step.
ThreadEnds(u) == thread_list[u].pos # "done" /\ thread_list'[u].pos = "done"

\* C17 as stated: once the worker has terminated, has_error() is true exactly
\* when the callable raised.
C17_ErrorIffRaised ==
    \A u \in Units:
        thread_list[u].pos = "done" =>
            (has_error(thread_list[u]) <=> thread_list[u].raised # "no")

\* C17: the step in which a worker ends, whatever its callable did, leaves the
\* driver where it is and raises nothing in it; once the worker has ended
\* has_error() is true exactly when the callable raised an Exception, and it
\* is false when the callable returned or raised an exception that is not an
\* Exception; has_error() is false on a worker that has not ended.
C17_FaultCapture ==
    [][/\ \A u \in Units:
              ThreadEnds(u) =>
                  /\ pc' = pc
                  /\ abort' = abort
                  /\ phase_log' = phase_log
       /\ \A u \in Units:
              has_error(thread_list'[u]) <=>
                  /\ thread_list'[u].pos = "done"
                  /\ thread_list'[u].raised = "Exception"]_vars

C17_Witness ==
    /\ clients = 2
    /\ thread_list[1].pos = "done" /\ thread_list[1].raised = "Exception"
    /\ has_error(thread_list[1])
    /\ thread_list[2].pos = "done" /\ thread_list[2].raised = "BaseException"
    /\ ~has_error(thread_list[2])

\* The status and the time the RunResult r holds for the n-th operation
\* (create, read, delete).
FieldOf(r, n) ==
    IF n = 1 THEN <<r.file_create_status, r.file_create_time_ms>>
    ELSE IF n = 2 THEN <<r.file_read_status, r.file_read_time_ms>>
    ELSE <<r.file_delete_status, r.file_delete_time_ms>>

\* C18: within execute_test a command that fails, or whose output lacks the
\* timing pattern, never makes the call raise: the call returns a RunResult
\* whose status for that operation is false, all three commands have been
\* attempted whatever the outcome of the earlier ones, and the operations
\* whose output holds the pattern keep their true status.
C18_ParseMissNotFatal ==
    /\ ~cmds.raised
    /\ pc # "raised"
    /\ \A n \in 1..cmds.attempted:
           cmds.out[n].kind = "error" => cmds.outputs[n] = << >>
    /\ pc = "returned" =>
          /\ cmds.attempted = 3
          /\ Len(cmds.outputs) = 3
          /\ \A n \in 1..3:
                 FieldOf(result[1], n)[1] = cmds.out[n].expect[1]

C18_Witness ==
    /\ pc = "returned"
    /\ cmds.out[1].kind = "error"
    /\ cmds.out[2].kind = "stdout" /\ ~cmds.out[2].expect[1]
    /\ cmds.out[2].text # << >>
    /\ cmds.out[3].expect[1]
    /\ ~result[1].file_create_status
    /\ ~result[1].file_read_status
    /\ result[1].file_delete_status

\* C19: for each of the three outputs, when the pattern is found the status
\* is true and the duration is m*60000 + s*1000 + f, f being the fraction
\* digits read as an integer; when it is not found the status is false and
\* the duration is 0; "real 1m2.345s" gives exactly 62345.
C19_ParserExactness ==
    /\ pc = "returned" =>
          \A n \in 1..3: FieldOf(result[1], n) = cmds.out[n].expect
    /\ ParseField(REAL \o <<" ", "1", "m", "2", ".", "3", "4", "5", "s">>)
           = <<TRUE, 62345>>

C19_Witness ==
    /\ pc = "returned"
    /\ cmds.out[2].kind = "stdout"
    /\ cmds.out[2].expect = <<TRUE, 12 * 60000 + 59 * 1000 + 345>>
    /\ result[1].file_read_time_ms = 779345
    /\ cmds.out[1].expect = <<FALSE, 0>>
    /\ result[1].file_create_time_ms = 0

\* C20: at every level L whose execute_test phase succeeded, execute_test was
\* invoked exactly once on each of the units 1..L and on no other unit, and
\* the accumulator holds exactly L results of that level, one per unit 1..L,
\* whatever the order in which the workers appended them; at no level does
\* it hold two results of one unit.
C20_OneResultPerUnit ==
    /\ \A n \in DOMAIN test_per_run_results:
           \A m \in DOMAIN test_per_run_results:
               (/\ n < m
                /\ test_per_run_results[n].level = test_per_run_results[m].level)
                   => test_per_run_results[n].id # test_per_run_results[m].id
    /\ \A l \in 1..clients:
           PhaseSucceeded("execute_test", l) =>
               LET results == ResultsOfLevel(l)
               IN /\ Len(results) = l
                  /\ {results[n].id : n \in 1..Len(results)} = 1..l
                  /\ SelectSeq(call_log,
                               LAMBDA e: e[1] = "execute_test" /\ e[2] = l)
                         = [u \in 1..l |-> <<"execute_test", l, u>>]

C20_Witness ==
    /\ clients = 2
    /\ PhaseSucceeded("execute_test", 2)
    /\ Len(ResultsOfLevel(2)) = 2
    /\ ResultsOfLevel(2)[1].id = 2
    /\ ResultsOfLevel(2)[2].id = 1

\* C21: at any time at most one worker is inside "with lock_obj:", where the
\* append to the accumulator happens, and it is the worker the one lock of
\* the run is held by; the lock is held by nobody else.
C21_MutualExclusion ==
    /\ \A u \in Units: thread_list[u].pos = "locked" => lockobj = u
    /\ lockobj # 0 => thread_list[lockobj].pos = "locked"

C21_Witness ==
    /\ clients = 2 /\ phase = "execute_test" /\ i = 2
    /\ thread_list[2].pos = "locked"
    /\ thread_list[1].pos = "acquire"
    /\ lockobj = 2

Running(t) == t.pos \in {"running", "acquire", "locked"}

\* C23: when a phase is logged ok no worker started for it is still running;
\* the driver moves to another phase or another level only when no worker is
\* running, and every running worker runs the target of the driver's current
\* phase: workers of two phases or of two levels never run at the same time.
C23_Barrier ==
    [][/\ (Len(phase_log') > Len(phase_log) /\ Last(phase_log')[4] = "ok") =>
              \A u \in Units: ~Running(thread_list[u])
       /\ (phase' # phase \/ i' # i) =>
              \A u \in Units: ~Running(thread_list[u])
       /\ \A u \in Units:
              Running(thread_list'[u]) =>
                  thread_list'[u].target = TargetOf(phase')]_vars

C23_Witness ==
    /\ clients = 2 /\ abort = << >>
    /\ phase = "pre_test_setup" /\ i = 2
    /\ Len(phase_log) = 4
    /\ Running(thread_list[1]) /\ Running(thread_list[2])

\* C24: with two units of which only the second one's pre_test_setup takes 10
\* time units, a run with join timeout 15 never aborts and ends with a report
\* of 2 entries, levels 1 and 2; a run with join timeout 5 completes level 1,
\* aborts on a timeout in the pre_test_setup of level 2 and ends with a report
\* holding the entry of level 1 only; either run goes on until the report is
\* emitted.
C24_Scenario ==
    /\ timeout_sec = 15 =>
          /\ abort = << >>
          /\ pc = "done" =>
                /\ Len(report_out.rows) = 2
                /\ report_out.rows[1].RunId = "1"
                /\ report_out.rows[2].RunId = "2"
    /\ timeout_sec = 5 =>
          /\ abort # << >> => abort = <<"pre_test_setup", 2, "timeout">>
          /\ AfterTry =>
                /\ abort # << >>
                /\ PhaseSucceeded("cleanup", 1)
          /\ pc = "done" =>
                /\ Len(report_out.rows) = 1
                /\ report_out.rows[1].RunId = "1"
    /\ pc # "done" => ENABLED NextScenario

C24_Witness ==
    /\ pc = "done"
    /\ timeout_sec = 5
    /\ abort = <<"pre_test_setup", 2, "timeout">>
    /\ Len(report_out.rows) = 1
    /\ thread_list[2].pos = "running"

\* Every check the command line has to pass: clients given and greater than
\* 0, bucket, region, key, secret key and key-pair name given, the key-pair
\* file given and an existing file.
ArgsValid ==
    /\ args.clients # << >> /\ args.clients[1] > 0
    /\ args.bucket # << >>
    /\ args.region # << >>
    /\ args.key # << >>
    /\ args.secretkey # << >>
    /\ args.keypairname # << >>
    /\ args.keypairfile = <<"file">>

\* C25: when any check of the command line fails main ends on its error with
\* no call made to the provisioner or the object store; a call is made only
\* after every check has passed.
C25_ValidationFirst ==
    /\ remote_log # << >> => ArgsValid
    /\ ~ArgsValid => pc \in {"parse_args", "invalid"}
    /\ pc = "invalid" => (~ArgsValid /\ remote_log = << >> /\ abort # << >>)

C25_Witness ==
    /\ pc = "invalid"
    /\ args = [GivenArgs(2) EXCEPT !.keypairfile = <<"directory">>]
    /\ remote_log = << >>

\* C26: a step never changes a RunAverages entry already in the report nor a
\* RunResult already in the accumulator: both only grow at the end; the step
\* that stores the averages of a level appends the RunAverages of the
\* accumulator and leaves the accumulator as it is.
C26_AggregationPure ==
    [][/\ Len(test_run_averages') >= Len(test_run_averages)
       /\ SubSeq(test_run_averages', 1, Len(test_run_averages))
              = test_run_averages
       /\ Len(test_per_run_results') >= Len(test_per_run_results)
       /\ SubSeq(test_per_run_results', 1, Len(test_per_run_results))
              = test_per_run_results
       /\ test_run_averages' # test_run_averages =>
              /\ test_per_run_results' = test_per_run_results
              /\ test_run_averages' =
                     Append(test_run_averages,
                            RunAverages(test_per_run_results, i))]_vars

C26_Witness ==
    /\ pc = "done" /\ clients = 2
    /\ Len(test_run_averages) = 2
    /\ test_run_averages[1].average_create_time_ms = 2
    /\ test_run_averages[2].average_create_time_ms = 4

\* C27: the join loop goes through the workers in list order; when it raises,
\* every unit before the current one was found ended and without error, the
\* failure is a timeout exactly when the current worker is still alive after
\* its join (even if its error flag is set already) and an error exactly when
\* it has ended with the flag set, and the driver raises at once: no time
\* passes and no later worker is waited for.
C27_FirstFailureInOrder ==
    [][/\ (pc = "join" /\ abort = << >> /\ abort' # << >>) =>
              /\ \A u \in 1..(j - 1):
                     thread_list[u].pos = "done" /\ ~thread_list[u].error
              /\ abort'[3] = "timeout" <=> thread_list[j].pos # "done"
              /\ abort'[3] = "error" <=>
                     (thread_list[j].pos = "done" /\ thread_list[j].error)
              /\ abort'[3] = "timeout" => clock = join_start + timeout_sec
              /\ clock' = clock
              /\ thread_list' = thread_list
       /\ (pc = "join" /\ pc' = "join") => j' \in {j, j + 1}]_vars

C27_Witness ==
    /\ clients = 2
    /\ abort = <<"setup_environment", 0, "timeout">>
    /\ j = 1
    /\ thread_list[1].pos = "exiting" /\ thread_list[1].error
    /\ thread_list[2].pos = "running"

\* C28: every step of the join loop whose outcome depends on has_error() (the
\* move to the next worker, the end of the phase, the raise for an error) is
\* taken on a worker that has ended, never on one that is still alive, flag
\* set or not; and once a worker was declared timed out the join loop is left,
\* so the flag of that worker is never read.
C28_FlagReadAfterSettled ==
    [][/\ (/\ pc = "join"
           /\ \/ j' # j
              \/ pc' # "join" /\ abort' = << >>
              \/ abort' # << >> /\ abort'[3] = "error")
          => thread_list[j].pos = "done"
       /\ (abort # << >> /\ abort[3] = "timeout") => (pc # "join" /\ pc' # "join")]_vars

C28_Witness ==
    /\ clients = 2
    /\ pc = "join"
    /\ j = 2
    /\ thread_list[1].pos = "done" /\ ~thread_list[1].error
    /\ thread_list[2].pos = "exiting" /\ thread_list[2].error

\* C29 (the claim as stated, which the code does not meet): when the driver
\* invokes destroy_all_instances, the only workers still executing a phase
\* call are those declared timed out, that is the worker whose join ran out.
C29_QuiescentAtTeardown ==
    [][(pc = "destroy" /\ pc' # "destroy") =>
           \A u \in Units:
               Running(thread_list[u]) =>
                   (abort # << >> /\ abort[3] = "timeout" /\ u = j)]_vars

\* The calls unit k has received so far, in the order they were issued.
CallsOf(k) == SelectSeq(call_log, LAMBDA c: c[3] = k)

\* The n-th call a unit receives in a ramp without failure: one
\* setup_environment, then pre_test_setup, execute_test, cleanup in turn.
PatternAt(n) ==
    IF n = 1 THEN "setup_environment"
    ELSE <<"pre_test_setup", "execute_test", "cleanup">>[((n - 2) % 3) + 1]

\* C30: the calls each unit receives follow the pattern setup_environment,
\* then pre_test_setup, execute_test, cleanup repeated (so never two
\* pre_test_setup without a cleanup of that unit in between), and after a ramp
\* of N levels without failure the unit at position k has received one
\* setup_environment and N-k+1 calls of each of the three phases, the last of
\* them a cleanup.
C30_PerUnitCallPattern ==
    [][/\ call_log' # call_log =>
              /\ Len(call_log') = Len(call_log) + 1
              /\ LET c == call_log'[Len(call_log')] IN
                 /\ c[3] \in 1..clients
                 /\ c[1] = PatternAt(Len(CallsOf(c[3])) + 1)
       /\ (~AfterTry /\ AfterTry' /\ abort' = << >>) =>
              \A k \in 1..clients:
                  LET calls == CallsOf(k) IN
                  /\ Len(calls) = 1 + 3 * (clients - k + 1)
                  /\ calls[Len(calls)][1] = "cleanup"]_vars

C30_Witness ==
    /\ pc = "done"
    /\ abort = << >>
    /\ clients = 2
    /\ Len(CallsOf(1)) = 7
    /\ Len(CallsOf(2)) = 4
    /\ CallsOf(2)[2] = <<"pre_test_setup", 2, 2>>

\* Two lists of RunResults agree on one operation: same length, and in every
\* position the same status and the same duration for that operation.
AgreeOn(l1, l2, status, time) ==
    /\ Len(l1) = Len(l2)
    /\ \A n \in DOMAIN l1: l1[n][status] = l2[n][status] /\ l1[n][time] = l2[n][time]

\* C31 (the claim as stated, which the code does not meet): the average
\* reported for an operation is the same for any two lists that agree on that
\* operation, whatever the other two operations are in them.
C31_OperationsIndependent ==
    pc = "aggregated" =>
        \A other \in RunResultLists:
            LET a == test_run_averages[1]
                b == RunAverages(other, i)
                l == test_per_run_results
            IN /\ AgreeOn(l, other, "file_create_status", "file_create_time_ms")
                      => b.average_create_time_ms = a.average_create_time_ms
               /\ AgreeOn(l, other, "file_read_status", "file_read_time_ms")
                      => b.average_read_time_ms = a.average_read_time_ms
               /\ AgreeOn(l, other, "file_delete_status", "file_delete_time_ms")
                      => b.average_delete_time_ms = a.average_delete_time_ms

\* C32: for each of the three operations the passes and the failures counted
\* by RunAverages add up to the number of RunResults of the list, the passes
\* being exactly the results whose status for that operation is True.
C32_CountsPartition ==
    pc = "aggregated" =>
        LET a == test_run_averages[1]
            l == test_per_run_results
        IN /\ a.total_create_pass = PassCount(l, "file_create_status")
           /\ a.total_create_pass + a.total_create_fail = Len(l)
           /\ a.total_read_pass = PassCount(l, "file_read_status")
           /\ a.total_read_pass + a.total_read_fail = Len(l)
           /\ a.total_delete_pass = PassCount(l, "file_delete_status")
           /\ a.total_delete_pass + a.total_delete_fail = Len(l)

C32_Witness ==
    /\ pc = "aggregated"
    /\ Len(test_per_run_results) = 2
    /\ test_run_averages[1].total_create_pass = 1
    /\ test_run_averages[1].total_create_fail = 1
    /\ test_run_averages[1].total_read_pass = 2
    /\ test_run_averages[1].total_delete_fail = 2

\* Position in Phases of the first method of the test object that raises, or
\* one past the last position when every method returns.
RECURSIVE FirstRaising(_, _)
FirstRaising(t, n) ==
    IF n > Len(Phases) \/ t[Phases[n]] # "returns" THEN n
    ELSE FirstRaising(t, n + 1)

\* C33: perform_all_operations calls the four methods once each in the fixed
\* order; it returns only after all four were called, and when a method
\* raises, that exception reaches the caller and the calls made are exactly
\* those up to and including the method that raised: no later phase, cleanup
\* included, is called.
C33_SerialStopsAtFirstFailure ==
    /\ \A n \in DOMAIN call_log: n <= Len(Phases) /\ call_log[n] = <<Phases[n], 0, 1>>
    /\ pc \in {"serial", "in_method", "returned", "raised"} /\ tests # << >> =>
          /\ pc = "returned" =>
                 /\ Len(call_log) = Len(Phases)
                 /\ abort = << >>
                 /\ FirstRaising(tests[1], 1) = Len(Phases) + 1
          /\ pc = "raised" =>
                 /\ Len(call_log) = FirstRaising(tests[1], 1)
                 /\ abort = <<Phases[Len(call_log)], 0, tests[1][Phases[Len(call_log)]]>>
          /\ Len(call_log) <= FirstRaising(tests[1], 1)

C33_Witness ==
    /\ pc = "raised"
    /\ abort = <<"execute_test", 0, "Exception">>
    /\ Len(call_log) = 3
    /\ tests[1]["cleanup"] = "returns"

\* create_bucket has returned: main went on to a later call.
BucketCreated ==
    \E n \in DOMAIN remote_log: remote_log[n] = "create_bucket" /\ n < Len(remote_log)

\* C34 (the claim as stated, which the code does not meet): whenever main has
\* ended after creating the bucket, delete_bucket was attempted for it, also
\* when create_instances failed after the bucket was created.
C34_NoBucketLeftBehind ==
    (pc \in {"done", "crashed"} /\ BucketCreated) => Attempted("delete_bucket")

\* The wait for 'running' of create_instances has returned False.
RunningWaitFailed ==
    \E n \in DOMAIN wait.history: wait.history[n] = <<"running", FALSE>>

\* C35: when the wait for 'running' fails, create_instances never returns a
\* list of instances, and by the time it raises terminate_instances has been
\* called with the id of every instance of the reservation; it returns its
\* list only after a wait for 'running' that succeeded, without any
\* termination request.
C35_FailedProvisioningReleases ==
    /\ RunningWaitFailed =>
          /\ pc # "create_returned"
          /\ pc = "create_raised" =>
                 \E n \in DOMAIN remote_log:
                     remote_log[n] = <<"terminate_instances", [k \in 1..clients |-> k]>>
    /\ pc = "create_returned" =>
          /\ wait.history = <<<<"running", TRUE>>>>
          /\ remote_log = <<<<"run_instances", clients>>>>

C35_Witness ==
    /\ pc = "create_raised"
    /\ clients = 2
    /\ RunningWaitFailed
    /\ remote_log = <<<<"run_instances", 2>>, <<"terminate_instances", <<1, 2>>>>>>
    /\ abort = <<"create_instances", 0, "create_instances">>

\* C36 (the claim as stated, which the code does not meet): the wait returns
\* True exactly when some polling round found every instance in the requested
\* state, and False only when no round did.
C36_WaitResult ==
    wait.done => (wait.returned <=> wait.seen)

\* C37 (the claim as stated, which the code does not meet): a command of
\* InstallCommands is issued on the host only after a probe of that host has
\* succeeded; a host that answered no probe before the deadline gets none.
C37_InstallAfterAnswer ==
    \A n \in DOMAIN cmds.outputs:
        cmds.outputs[n][1] # "echo hello" =>
            \E m \in 1..(n - 1): cmds.outputs[m] = <<"echo hello", "ok">>

\* C38: constructing the executor without a list or with an empty list
\* raises "No tests specified" and nothing is run; a phase is started and
\* joined only over one unit or more.
C38_AtLeastOneUnit ==
    /\ NoTestsGiven(tests) =>
          /\ pc \in {"construct", "raised"}
          /\ call_log = << >>
          /\ phase_log = << >>
          /\ pc = "raised" => abort = <<"__init__", 0, "No tests specified">>
    /\ pc \notin {"construct", "raised"} =>
          /\ ~NoTestsGiven(tests)
          /\ clients = Len(tests[1])
          /\ clients >= 1
    /\ \A n \in DOMAIN phase_log: phase_log[n][3] >= 1

C38_Witness ==
    /\ tests = <<<< >>>>
    /\ pc = "raised"
    /\ abort = <<"__init__", 0, "No tests specified">>
    /\ call_log = << >>
====
